---- MODULE Spec2Model ----
(***************************************************************************)
(* A model of the Vertex AI gateway of z-ai-backend (src/lib/vertex.ts):   *)
(* the class VertexAIService with its one-slot access-token cache, the     *)
(* token exchange, request validation, generation dispatch with the model  *)
(* fallback, and the normalisation of the response (extractTextFrom-       *)
(* Candidate).                                                             *)
(*                                                                         *)
(* Conventions of the model                                                *)
(*  - An optional value (a field that may be undefined) is a sequence:     *)
(*    <<>> is undefined, <<v>> is the value v.                             *)
(*  - A JavaScript string that the code builds (an error message, a        *)
(*    response) is the sequence of the fragments it is concatenated from;  *)
(*    <<>> is the empty string ''.  Literal fragments are the literals of  *)
(*    the source, split where a claim looks for a word.                    *)
(*  - A temperature is an integer number of tenths (15 is 1.5).            *)
(*  - A system prompt is modelled by its length, the only attribute of it  *)
(*    the code inspects; the prompt is an opaque string.                   *)
(*  - An access token is a positive integer; 0 stands for every falsy      *)
(*    content of the cache slot (null, undefined, '').                     *)
(***************************************************************************)
EXTENDS Integers, Sequences, FiniteSets, TLC

(***************************************************************************)
(* Bounds of the model.                                                    *)
(***************************************************************************)
\* distinct access tokens the token endpoint may hand out
NumTokens == 2
\* cap of the counter of successful getAccessToken returns
MaxGets == 2
\* cap of the recursion depth of generateResponse the model follows
MaxDepth == 2

(***************************************************************************)
(* Program constants.                                                      *)
(***************************************************************************)
\* vertex.ts:51  temperature >= 0 && temperature <= 2   (in tenths)
MinTemperature == 0
MaxTemperature == 20
\* vertex.ts:31  parseFloat(process.env.VERTEX_DEFAULT_TEMP || '1.5')
DefaultTemperature == 15
\* vertex.ts:55  systemPrompt.length > 0 && systemPrompt.length <= 2000
MaxSystemPromptLen == 2000
\* vertex.ts:32  length of the built-in default system prompt
DefaultSystemPromptLen == 181
\* vertex.ts:227 response.status === 400
FallbackStatus == 400

\* vertex.ts:16
VALID_MODELS == <<"gemini-2.5-flash", "gemini-2.5-pro">>
\* vertex.ts:227, 231  the model the fallback retries with
FALLBACK_MODEL == "gemini-2.5-flash"

Tokens == 1..NumTokens

(***************************************************************************)
(* Strings built by the code.                                              *)
(***************************************************************************)
\* a JavaScript string value as a fragment sequence
Str(s) == IF s = "" THEN <<>> ELSE <<s>>

\* Array.prototype.join over a sequence of strings
RECURSIVE Join(_, _)
Join(seq, sep) ==
  IF Len(seq) = 0 THEN <<>>
  ELSE IF Len(seq) = 1 THEN <<seq[1]>>
  ELSE <<seq[1], sep>> \o Join(Tail(seq), sep)

\* the message contains the fragment w
Contains(msg, w) == \E i \in DOMAIN msg : msg[i] = w

\* `${temperature}` for the temperatures of the model (tenths)
TemperatureString(t) ==
  CASE t = 0 -> "0"
    [] t = 10 -> "1"
    [] t = 15 -> "1.5"
    [] t = 20 -> "2"
    [] t = 21 -> "2.1"
    [] t = 25 -> "2.5"
    [] t = -1 -> "-0.1"
    [] OTHER -> "?"

\* `${response.status}` for the statuses of the model
StatusString(s) ==
  CASE s = 200 -> "200"
    [] s = 400 -> "400"
    [] s = 401 -> "401"
    [] s = 500 -> "500"
    [] OTHER -> "?"

SAFETY_MESSAGE == "Maaf, respons tidak dapat diberikan karena alasan keamanan."
SAFETY_ERROR == "Response blocked by safety filters"
TOO_LONG_MESSAGE == "Maaf, respons terlalu panjang dan terpotong. Silakan coba dengan pertanyaan yang lebih singkat."
TOO_LONG_ERROR == "Response exceeded token limit"
CUT_OFF_NOTICE == "\n\n[Response was cut off due to length. Please try a shorter request.]"
TEST_MODE_PREFIX == "[TEST MODE] Ini adalah respons simulasi untuk: \""
TEST_MODE_REST == "\"\n\nKode Python untuk kalkulator sederhana: ..."

(***************************************************************************)
(* Candidates: the shapes of data.candidates[0] the extraction probes.     *)
(* A candidate is null, a string, or an object with the optional fields    *)
(* finishReason, content, text and parts.                                  *)
(***************************************************************************)
\* an element of a parts array: null, or an object with an optional text
NullPart == [k |-> "null", text |-> <<>>]
Part(text) == [k |-> "obj", text |-> text]

\* a parts field: undefined, or an array of parts
NoParts == [k |-> "undef", items |-> <<>>]
PartsArr(items) == [k |-> "arr", items |-> items]

\* a content field: undefined, a string, or an object with optional parts
NoContent == [k |-> "undef", s |-> "", parts |-> NoParts]
ContentStr(s) == [k |-> "str", s |-> s, parts |-> NoParts]
ContentObj(parts) == [k |-> "obj", s |-> "", parts |-> parts]

NullCandidate ==
  [k |-> "null", s |-> "", finishReason |-> <<>>, content |-> NoContent,
   text |-> <<>>, parts |-> NoParts]
StringCandidate(s) ==
  [k |-> "str", s |-> s, finishReason |-> <<>>, content |-> NoContent,
   text |-> <<>>, parts |-> NoParts]
ObjCandidate(fr, content, text, parts) ==
  [k |-> "obj", s |-> "", finishReason |-> fr, content |-> content,
   text |-> text, parts |-> parts]

\* the parts fields of the model, with t the text a first part may carry
PartsVals(t) ==
  { NoParts, PartsArr(<<>>), PartsArr(<<NullPart>>), PartsArr(<<Part(<<>>)>>),
    PartsArr(<<Part(<<"">>)>>), PartsArr(<<Part(<<t>>)>>),
    PartsArr(<<Part(<<t>>), Part(<<"second">>)>>) }
ContentVals ==
  { NoContent, ContentStr(""), ContentStr("content-string") }
    \cup { ContentObj(p) : p \in PartsVals("hi") }
TextVals == { <<>>, <<"">>, <<"top-text">> }
FinishReasons == { <<>>, <<"STOP">>, <<"MAX_TOKENS">>, <<"SAFETY">> }

Candidates ==
  { NullCandidate, StringCandidate(""), StringCandidate("raw") }
    \cup { ObjCandidate(fr, c, t, p) :
             fr \in FinishReasons, c \in ContentVals, t \in TextVals,
             p \in PartsVals("part-text") }

(***************************************************************************)
(* extractTextFromCandidate, vertex.ts:295-339.                            *)
(* The body is evaluated as JavaScript evaluates it: reading a property of *)
(* null or undefined throws a TypeError, which the function's own catch    *)
(* turns into ''.                                                          *)
(***************************************************************************)
Returned(v) == [threw |-> FALSE, val |-> v]
Thrown == [threw |-> TRUE, val |-> ""]

\* a string is truthy when it is not empty
TruthyText(t) == t # <<>> /\ t[1] # ""

\* lines 317-322 and 324-334: top-level parts, then the string case, then ''
extractFromTopParts(c) ==
  IF c.parts.k = "arr" /\ Len(c.parts.items) > 0
  THEN LET firstPart == c.parts.items[1] IN
       IF firstPart.k = "null" THEN Thrown
       ELSE IF TruthyText(firstPart.text) THEN Returned(firstPart.text[1])
       ELSE Returned("")
  ELSE Returned("")

\* lines 307-315: content as a string, then top-level text
extractFromContentStringOrText(c) ==
  IF c.content.k = "str" /\ c.content.s # "" THEN Returned(c.content.s)
  ELSE IF TruthyText(c.text) THEN Returned(c.text[1])
  ELSE extractFromTopParts(c)

\* lines 296-334, the try block
extractTextBody(c) ==
  IF c.k = "null" THEN Thrown
  ELSE IF c.k = "str" THEN Returned(c.s)
  ELSE IF c.content.k = "obj" /\ c.content.parts.k = "arr"
       THEN LET parts == c.content.parts.items IN
            IF Len(parts) > 0
            THEN IF parts[1].k = "null" THEN Thrown
                 ELSE IF TruthyText(parts[1].text)
                      THEN Returned(parts[1].text[1])
                      ELSE extractFromContentStringOrText(c)
            ELSE extractFromContentStringOrText(c)
       ELSE extractFromContentStringOrText(c)

\* lines 295-339, with the catch of lines 335-338
extractTextFromCandidate(c) ==
  LET r == extractTextBody(c) IN IF r.threw THEN "" ELSE r.val

(***************************************************************************)
(* The environment (process.env) and the credential bundle.                *)
(***************************************************************************)
\* GCP_SERVICE_ACCOUNT_BASE64: unset; base64 of text that is not JSON; or
\* base64 of a JSON object, of which client_email and private_key matter
\* ("" is an absent or empty field; a private key may fail to be a PEM key)
CredUnset == [k |-> "unset", client_email |-> "", private_key |-> ""]
CredGarbage == [k |-> "garbage", client_email |-> "", private_key |-> ""]
CredJson(email, key) == [k |-> "json", client_email |-> email, private_key |-> key]
CredValues ==
  { CredUnset, CredGarbage, CredJson("", "PEM"), CredJson("sa@proj.iam", ""),
    CredJson("sa@proj.iam", "not-a-pem"), CredJson("sa@proj.iam", "PEM") }

Envs ==
  [ NODE_ENV : {"production", "development"},
    GCP_PROJECT_ID : {"", "proj"},
    GCP_SERVICE_ACCOUNT_BASE64 : CredValues,
    VERTEX_DEFAULT_MODEL : {"", "gemini-2.5-pro", "not-a-real-model"},
    VERTEX_DEFAULT_TEMP : {<<>>, <<25>>},
    VERTEX_DEFAULT_SYSTEM_PROMPT : {0, MaxSystemPromptLen + 1} ]

\* a constructor that does not require the bundle in production
constructorThrows_ProjectOnly(e) ==
  /\ e.NODE_ENV = "production"
  /\ e.GCP_PROJECT_ID = ""

\* vertex.ts:27-44: the fields of a new instance, or the constructor throws
constructorThrows(e) ==
  /\ e.NODE_ENV = "production"
  /\ \/ e.GCP_PROJECT_ID = ""
     \/ e.GCP_SERVICE_ACCOUNT_BASE64.k = "unset"

constructor(e) ==
  [ projectId |-> e.GCP_PROJECT_ID,
    defaultModel |-> IF e.VERTEX_DEFAULT_MODEL # "" THEN e.VERTEX_DEFAULT_MODEL
                     ELSE "gemini-2.5-flash",
    defaultTemperature |-> IF e.VERTEX_DEFAULT_TEMP # <<>> THEN e.VERTEX_DEFAULT_TEMP[1]
                           ELSE DefaultTemperature,
    defaultSystemPrompt |-> IF e.VERTEX_DEFAULT_SYSTEM_PROMPT # 0
                            THEN e.VERTEX_DEFAULT_SYSTEM_PROMPT
                            ELSE DefaultSystemPromptLen,
    accessToken |-> 0 ]

\* a validateModel that accepts every non-empty model name
validateModel_AnyName(model) == model # ""

\* vertex.ts:46-48
validateModel(model) == \E i \in DOMAIN VALID_MODELS : VALID_MODELS[i] = model

\* a validateTemperature that forgets the upper limit
validateTemperature_NoUpper(temperature) == temperature >= MinTemperature

\* vertex.ts:50-52
validateTemperature(temperature) ==
  temperature >= MinTemperature /\ temperature <= MaxTemperature

\* vertex.ts:54-56
validateSystemPrompt(systemPrompt) ==
  systemPrompt > 0 /\ systemPrompt <= MaxSystemPromptLen

\* a decoding that does not look for client_email and private_key
getServiceAccountCredentials_NoFieldCheck(e) ==
  LET b == e.GCP_SERVICE_ACCOUNT_BASE64 IN
  IF b.k = "unset"
  THEN [ok |-> FALSE, sa |-> b,
        err |-> <<"Failed to decode GCP_SERVICE_ACCOUNT_BASE64: ",
                  "TypeError: The first argument must be of type string">>]
  ELSE IF b.k = "garbage"
  THEN [ok |-> FALSE, sa |-> b,
        err |-> <<"Invalid JSON in GCP_SERVICE_ACCOUNT_BASE64: ",
                  "Unexpected token in JSON">>]
  ELSE [ok |-> TRUE, sa |-> b, err |-> <<>>]

\* vertex.ts:58-77: the decoded service account, or the message thrown
getServiceAccountCredentials(e) ==
  LET b == e.GCP_SERVICE_ACCOUNT_BASE64 IN
  IF b.k = "unset"
  THEN [ok |-> FALSE, sa |-> b,
        err |-> <<"Failed to decode GCP_SERVICE_ACCOUNT_BASE64: ",
                  "TypeError: The first argument must be of type string">>]
  ELSE IF b.k = "garbage"
  THEN [ok |-> FALSE, sa |-> b,
        err |-> <<"Invalid JSON in GCP_SERVICE_ACCOUNT_BASE64: ",
                  "Unexpected token in JSON">>]
  ELSE IF b.client_email = "" \/ b.private_key = ""
  THEN [ok |-> FALSE, sa |-> b,
        err |-> <<"Failed to decode GCP_SERVICE_ACCOUNT_BASE64: ", "Error: ",
                  "Invalid service account credentials: missing ", "client_email", " or ",
                  "private_key">>]
  ELSE [ok |-> TRUE, sa |-> b, err |-> <<>>]

\* vertex.ts:97-103: jwt.sign throws on a key that is no RSA private key
jwtSignThrows(private_key) == private_key # "PEM"

(***************************************************************************)
(* Requests and results.                                                   *)
(***************************************************************************)
Requests ==
  [ prompt : {"Halo"},
    model : {<<>>, <<"">>, <<"gemini-2.5-flash">>, <<"gemini-2.5-pro">>,
             <<"not-a-real-model">>},
    temperature : {<<>>, <<0>>, <<20>>, <<25>>, <<-1>>},
    systemPrompt : {<<>>, <<0>>, <<1>>, <<MaxSystemPromptLen>>,
                    <<MaxSystemPromptLen + 1>>} ]

NoRequest == [prompt |-> "", model |-> <<>>, temperature |-> <<>>, systemPrompt |-> <<>>]

Result(response, error) == [response |-> response, error |-> error]

\* how a call of generateResponse ends for its caller
Resolved(result) == [kind |-> "resolved", value |-> result]
Rejected(message) == [kind |-> "rejected", value |-> Result(<<>>, message)]
NoOutcome == [kind |-> "none", value |-> Result(<<>>, <<>>)]

\* a catch that lets the error go on to the caller
generateResponseCatch_Rethrows(message) == Rejected(message)

\* a catch that answers with an apology text beside the error
generateResponseCatch_WithText(message) ==
  Resolved(Result(<<"Maaf, terjadi kesalahan.">>, message))

\* vertex.ts:286-292: the catch of generateResponse gets the message thrown
generateResponseCatch(message) == Resolved(Result(<<>>, message))

(***************************************************************************)
(* The HTTP chat handler, from the result of generateResponse to what it   *)
(* sends: the status and the JSON body, by its keys and their values       *)
(* (timestamp apart).  src/server.ts:40-61 and both handlers of            *)
(* src/api/chat.ts (57-80, 196-224) do the same.                           *)
(***************************************************************************)
Sent(status, keys, success, response, error, details) ==
  [status |-> status, keys |-> keys, success |-> success, response |-> response,
   error |-> error, details |-> details]
NoResponse == Sent(0, {}, FALSE, <<>>, "", <<>>)

\* a handler that passes the text of the result on beside its error
handler_WithResponse(o) ==
  IF o.kind = "rejected"
  THEN Sent(500, {"error", "details"}, FALSE, <<>>, "Internal server error", o.value.error)
  ELSE IF o.value.error # <<>>
  THEN Sent(500, {"error", "details", "response"}, FALSE, o.value.response,
            "Failed to generate response", o.value.error)
  ELSE Sent(200, {"success", "response", "timestamp"}, TRUE, o.value.response, "", <<>>)

\* server.ts:41-61: the await throws into the catch; a result whose error is
\* set is answered with 500; any other result with 200
handler(o) ==
  IF o.kind = "rejected"
  THEN Sent(500, {"error", "details"}, FALSE, <<>>, "Internal server error", o.value.error)
  ELSE IF o.value.error # <<>>
  THEN Sent(500, {"error", "details"}, FALSE, <<>>, "Failed to generate response",
            o.value.error)
  ELSE Sent(200, {"success", "response", "timestamp"}, TRUE, o.value.response, "", <<>>)

(***************************************************************************)
(* Network requests and responses.                                         *)
(***************************************************************************)
TokenRequest ==
  [kind |-> "token", model |-> "", token |-> 0, temperature |-> 0,
   systemPrompt |-> 0, prompt |-> ""]
\* vertex.ts:164, 180-218: the generation request
GenRequest(model, token, temperature, systemPrompt, prompt) ==
  [kind |-> "gen", model |-> model, token |-> token, temperature |-> temperature,
   systemPrompt |-> systemPrompt, prompt |-> prompt]

\* what the token endpoint may answer: fetch rejects; a non-2xx status; a 2xx
\* body that is no JSON; a 2xx JSON body whose access_token is the token
\* (0: the field is absent or empty)
TokenThrow == [k |-> "throw", status |-> 0, json |-> FALSE, access_token |-> 0]
TokenHttp(status, json, tok) ==
  [k |-> "http", status |-> status, json |-> json, access_token |-> tok]
TokenOutcomes ==
  { TokenThrow, TokenHttp(401, TRUE, 0), TokenHttp(200, FALSE, 0) }
    \cup { TokenHttp(200, TRUE, t) : t \in 0..NumTokens }

\* what the generation endpoint may answer: fetch rejects; a non-2xx status;
\* a 2xx body that is no JSON; a 2xx JSON body with or without candidates
GenThrow == [k |-> "throw", status |-> 0, json |-> FALSE, hasCandidates |-> FALSE,
             candidates |-> <<>>]
GenHttp(status) == [k |-> "http", status |-> status, json |-> TRUE,
                    hasCandidates |-> FALSE, candidates |-> <<>>]
GenNotJson == [k |-> "http", status |-> 200, json |-> FALSE, hasCandidates |-> FALSE,
               candidates |-> <<>>]
GenNoCandidates == [k |-> "http", status |-> 200, json |-> TRUE,
                    hasCandidates |-> FALSE, candidates |-> <<>>]
GenBody(cands) == [k |-> "http", status |-> 200, json |-> TRUE,
                   hasCandidates |-> TRUE, candidates |-> cands]

\* the candidates the generation endpoint answers with in the gateway model
GenCandidates ==
  { NullCandidate, StringCandidate("raw") }
    \cup { ObjCandidate(fr, c, t, NoParts) :
             fr \in {<<>>, <<"MAX_TOKENS">>, <<"SAFETY">>},
             c \in {NoContent, ContentObj(PartsArr(<<Part(<<"hi">>)>>)),
                    ContentObj(PartsArr(<<NullPart>>))},
             t \in {<<>>, <<"top-text">>} }
GenOutcomes ==
  { GenThrow, GenHttp(400), GenHttp(401), GenHttp(500), GenNotJson,
    GenNoCandidates, GenBody(<<>>) }
    \cup { GenBody(<<c>>) : c \in GenCandidates }
    \cup { GenBody(<<ObjCandidate(<<>>, NoContent, <<>>, NoParts),
                     ObjCandidate(<<"STOP">>, NoContent, <<"top-text">>, NoParts)>>) }

(***************************************************************************)
(* The credential bundle as text: the JSON file, its UTF-8 bytes and their *)
(* base64 encoding.  A text is a sequence of characters, a character is a  *)
(* one-character string ("grave" stands for U+0060, "e-acute" for U+00E9   *)
(* and "U+FFFD" for the replacement character); bytes are the integers     *)
(* 0..255.                                                                 *)
(***************************************************************************)
\* the printable ASCII characters, U+0020 to U+007E, in code order
Printable ==
  <<" ", "!", "\"", "#", "$", "%", "&", "'", "(", ")", "*", "+", ",", "-", ".", "/",
    "0", "1", "2", "3", "4", "5", "6", "7", "8", "9", ":", ";", "<", "=", ">", "?",
    "@", "A", "B", "C", "D", "E", "F", "G", "H", "I", "J", "K", "L", "M", "N", "O",
    "P", "Q", "R", "S", "T", "U", "V", "W", "X", "Y", "Z", "[", "\\", "]", "^", "_",
    "grave", "a", "b", "c", "d", "e", "f", "g", "h", "i", "j", "k", "l", "m", "n", "o",
    "p", "q", "r", "s", "t", "u", "v", "w", "x", "y", "z", "{", "|", "}", "~">>

\* the code point of a character, and the character of a code point
CodeOf(ch) ==
  CASE ch = "\t" -> 9
    [] ch = "\n" -> 10
    [] ch = "\r" -> 13
    [] ch = "e-acute" -> 233
    [] ch = "U+FFFD" -> 65533
    [] OTHER -> 31 + (CHOOSE i \in DOMAIN Printable : Printable[i] = ch)
CharOf(code) ==
  CASE code = 9 -> "\t"
    [] code = 10 -> "\n"
    [] code = 13 -> "\r"
    [] code = 233 -> "e-acute"
    [] code >= 32 /\ code <= 126 -> Printable[code - 31]
    [] OTHER -> "U+FFFD"

\* Buffer.from(text), part_003:41: the UTF-8 bytes of a text
Utf8Bytes(code) ==
  IF code < 128 THEN <<code>>
  ELSE IF code < 2048 THEN <<192 + (code \div 64), 128 + (code % 64)>>
  ELSE <<224 + (code \div 4096), 128 + ((code \div 64) % 64), 128 + (code % 64)>>
\* the sequences seqs[lo], ..., seqs[hi], one after another
RECURSIVE Flatten(_, _, _)
Flatten(seqs, lo, hi) ==
  IF lo > hi THEN <<>>
  ELSE IF lo = hi THEN seqs[lo]
  ELSE Flatten(seqs, lo, (lo + hi) \div 2) \o Flatten(seqs, ((lo + hi) \div 2) + 1, hi)
Utf8Encode(text) ==
  Flatten([i \in DOMAIN text |-> Utf8Bytes(CodeOf(text[i]))], 1, Len(text))

\* buffer.toString('utf-8'), vertex.ts:62: the text of UTF-8 bytes.  A byte
\* below 128 is its character; a lead byte with its continuation bytes is
\* the character of their bits (two-byte sequences, and the three bytes of
\* U+FFFD itself); a continuation byte that such a lead byte takes gives
\* nothing; every other byte becomes U+FFFD.
IsContinuation(bytes, i) ==
  i >= 1 /\ i <= Len(bytes) /\ bytes[i] >= 128 /\ bytes[i] < 192
LeadsTwo(bytes, i) ==
  /\ i >= 1 /\ i <= Len(bytes)
  /\ bytes[i] >= 194 /\ bytes[i] < 224
  /\ IsContinuation(bytes, i + 1)
LeadsThree(bytes, i) ==
  /\ i >= 1 /\ i <= Len(bytes)
  /\ bytes[i] = 239
  /\ IsContinuation(bytes, i + 1) /\ IsContinuation(bytes, i + 2)
Taken == ""
Utf8CharAt(bytes, i) ==
  IF bytes[i] < 128 THEN CharOf(bytes[i])
  ELSE IF LeadsTwo(bytes, i)
  THEN CharOf(((bytes[i] - 192) * 64) + (bytes[i + 1] - 128))
  ELSE IF LeadsThree(bytes, i)
  THEN CharOf(((bytes[i] - 224) * 4096) + ((bytes[i + 1] - 128) * 64)
                + (bytes[i + 2] - 128))
  ELSE IF \/ LeadsTwo(bytes, i - 1)
          \/ LeadsThree(bytes, i - 1)
          \/ LeadsThree(bytes, i - 2)
  THEN Taken
  ELSE "U+FFFD"
Utf8Decode(bytes) ==
  LET IsChar(ch) == ch # Taken IN
  SelectSeq([i \in DOMAIN bytes |-> Utf8CharAt(bytes, i)], IsChar)

\* the base64 alphabet, in the order of the 6-bit values 0..63
Base64Alphabet ==
  <<"A", "B", "C", "D", "E", "F", "G", "H", "I", "J", "K", "L", "M", "N", "O", "P",
    "Q", "R", "S", "T", "U", "V", "W", "X", "Y", "Z", "a", "b", "c", "d", "e", "f",
    "g", "h", "i", "j", "k", "l", "m", "n", "o", "p", "q", "r", "s", "t", "u", "v",
    "w", "x", "y", "z", "0", "1", "2", "3", "4", "5", "6", "7", "8", "9", "+", "/">>
Base64Pad == "="

ByteAt(bytes, i) == IF i <= Len(bytes) THEN bytes[i] ELSE 0

\* buffer.toString('base64'), part_003:41: three bytes give four characters,
\* the last group is padded with =
Base64Encode(bytes) ==
  [ j \in 1..(4 * ((Len(bytes) + 2) \div 3)) |->
      LET g == (j - 1) \div 4
          pos == (j - 1) % 4
          v == (ByteAt(bytes, 3 * g + 1) * 65536) + (ByteAt(bytes, 3 * g + 2) * 256)
                 + ByteAt(bytes, 3 * g + 3)
      IN
      IF pos = 2 /\ 3 * g + 2 > Len(bytes) THEN Base64Pad
      ELSE IF pos = 3 /\ 3 * g + 3 > Len(bytes) THEN Base64Pad
      ELSE Base64Alphabet[1 + (CASE pos = 0 -> v \div 262144
                                 [] pos = 1 -> (v \div 4096) % 64
                                 [] pos = 2 -> (v \div 64) % 64
                                 [] OTHER -> v % 64)] ]

\* Buffer.from(text, 'base64'), vertex.ts:62: the characters of the
\* alphabet before the first = are decoded, four giving three bytes, and a
\* last group of two or three giving one or two bytes; characters outside
\* the alphabet are skipped
InAlphabet(ch) == \E i \in DOMAIN Base64Alphabet : Base64Alphabet[i] = ch
SextetOf(ch) == (CHOOSE i \in DOMAIN Base64Alphabet : Base64Alphabet[i] = ch) - 1
BeforePad(text) ==
  IF \E i \in DOMAIN text : text[i] = Base64Pad
  THEN SubSeq(text, 1, (CHOOSE i \in DOMAIN text :
                          /\ text[i] = Base64Pad
                          /\ \A j \in 1..(i - 1) : text[j] # Base64Pad) - 1)
  ELSE text
SextetAt(s, i) == IF i <= Len(s) THEN SextetOf(s[i]) ELSE 0
Base64Decode(text) ==
  LET s == SelectSeq(BeforePad(text), InAlphabet)
      rest == Len(s) % 4
      n == (3 * (Len(s) \div 4)) + (IF rest = 2 THEN 1 ELSE IF rest = 3 THEN 2 ELSE 0)
  IN
  [ j \in 1..n |->
      LET g == (j - 1) \div 3
          pos == (j - 1) % 3
          v == (SextetAt(s, 4 * g + 1) * 262144) + (SextetAt(s, 4 * g + 2) * 4096)
                 + (SextetAt(s, 4 * g + 3) * 64) + SextetAt(s, 4 * g + 4)
      IN
      CASE pos = 0 -> v \div 65536
        [] pos = 1 -> (v \div 256) % 256
        [] OTHER -> v % 256 ]

(***************************************************************************)
(* JSON, for the texts of this model: an object whose members are strings. *)
(* An object is a function from its keys to their values, keys and values  *)
(* being texts.                                                            *)
(***************************************************************************)
EmptyObject == [key \in {} |-> <<>>]
Put(obj, key, val) ==
  [k \in DOMAIN obj \cup {key} |-> IF k = key THEN val ELSE obj[k]]
\* !obj[key]: the member is absent or the empty string
Falsy(obj, key) == key \notin DOMAIN obj \/ obj[key] = <<>>

IsWhitespace(ch) == ch \in {" ", "\n", "\t", "\r"}
RECURSIVE SkipWhitespace(_, _)
SkipWhitespace(text, i) ==
  IF i <= Len(text) /\ IsWhitespace(text[i]) THEN SkipWhitespace(text, i + 1) ELSE i

\* the character an escape \c stands for; "" when the model has none
\* (\b, \f and \uXXXX do not occur in its texts)
Unescaped(ch) ==
  CASE ch = "n" -> "\n"
    [] ch = "t" -> "\t"
    [] ch = "r" -> "\r"
    [] ch \in {"\"", "\\", "/"} -> ch
    [] OTHER -> ""

StringFail == [ok |-> FALSE, val |-> <<>>, next |-> 0]
\* a string from after its opening quote: its value and the position after
\* its closing quote; a raw control character or an unknown escape is a
\* SyntaxError
RECURSIVE ParseStringBody(_, _, _)
ParseStringBody(text, i, acc) ==
  IF i > Len(text) THEN StringFail
  ELSE IF text[i] = "\""
  THEN [ok |-> TRUE, val |-> acc, next |-> i + 1]
  ELSE IF text[i] = "\\"
  THEN IF i + 1 > Len(text) \/ Unescaped(text[i + 1]) = "" THEN StringFail
       ELSE ParseStringBody(text, i + 2, Append(acc, Unescaped(text[i + 1])))
  ELSE IF CodeOf(text[i]) < 32 THEN StringFail
  ELSE ParseStringBody(text, i + 1, Append(acc, text[i]))
ParseString(text, i) ==
  IF i <= Len(text) /\ text[i] = "\"" THEN ParseStringBody(text, i + 1, <<>>)
  ELSE StringFail

ObjectFail == [ok |-> FALSE, obj |-> EmptyObject, next |-> 0]
\* the members of an object from the first character of a key, up to the
\* closing brace; a later member of the same key replaces the earlier one
RECURSIVE ParseMembers(_, _, _)
ParseMembers(text, i, obj) ==
  LET key == ParseString(text, i) IN
  IF ~key.ok THEN ObjectFail
  ELSE LET colon == SkipWhitespace(text, key.next) IN
       IF colon > Len(text) \/ text[colon] # ":" THEN ObjectFail
       ELSE LET val == ParseString(text, SkipWhitespace(text, colon + 1)) IN
            IF ~val.ok THEN ObjectFail
            ELSE LET end == SkipWhitespace(text, val.next) IN
                 IF end > Len(text) THEN ObjectFail
                 ELSE IF text[end] = "}"
                 THEN [ok |-> TRUE, obj |-> Put(obj, key.val, val.val), next |-> end + 1]
                 ELSE IF text[end] = ","
                 THEN ParseMembers(text, SkipWhitespace(text, end + 1),
                                   Put(obj, key.val, val.val))
                 ELSE ObjectFail

\* JSON.parse(text): the object, or a SyntaxError
JSONparse(text) ==
  LET open == SkipWhitespace(text, 1) IN
  IF open > Len(text) \/ text[open] # "{" THEN ObjectFail
  ELSE LET first == SkipWhitespace(text, open + 1)
           r == IF first <= Len(text) /\ text[first] = "}"
                THEN [ok |-> TRUE, obj |-> EmptyObject, next |-> first + 1]
                ELSE ParseMembers(text, first, EmptyObject)
       IN
       IF r.ok /\ SkipWhitespace(text, r.next) = Len(text) + 1 THEN r ELSE ObjectFail

\* the text of a string value: quoted, with ", \ and the newline escaped
Escaped(ch) ==
  CASE ch = "\"" -> <<"\\", "\"">>
    [] ch = "\\" -> <<"\\", "\\">>
    [] ch = "\n" -> <<"\\", "n">>
    [] OTHER -> <<ch>>
EscapedAll(s) == Flatten([i \in DOMAIN s |-> Escaped(s[i])], 1, Len(s))
Quoted(s) == <<"\"">> \o EscapedAll(s) \o <<"\"">>

\* the members of obj under the keys `keys`, in that order, each written
\* key, afterKey, value and separated by `between`
RECURSIVE MembersText(_, _, _, _)
MembersText(obj, keys, afterKey, between) ==
  IF keys = <<>> THEN <<>>
  ELSE Quoted(Head(keys)) \o afterKey \o Quoted(obj[Head(keys)])
         \o (IF Len(keys) > 1 THEN between ELSE <<>>)
         \o MembersText(obj, Tail(keys), afterKey, between)

(***************************************************************************)
(* Service account key files.                                              *)
(***************************************************************************)
\* the field names, as texts
FieldText ==
  [ type |-> <<"t", "y", "p", "e">>,
    project_id |-> <<"p", "r", "o", "j", "e", "c", "t", "_", "i", "d">>,
    private_key_id |-> <<"p", "r", "i", "v", "a", "t", "e", "_", "k", "e", "y", "_", "i", "d">>,
    private_key |-> <<"p", "r", "i", "v", "a", "t", "e", "_", "k", "e", "y">>,
    client_email |-> <<"c", "l", "i", "e", "n", "t", "_", "e", "m", "a", "i", "l">> ]
\* part_003:34 and decode-credentials-example.js:21
requiredFields == <<"type", "project_id", "private_key_id", "private_key", "client_email">>
FieldNames == { requiredFields[i] : i \in DOMAIN requiredFields }

\* the value a field has when it is there and not empty: the private key
\* has a newline, a quote, a backslash and a =, the e-mail a character
\* outside ASCII
FieldValue ==
  [ type |-> <<"s", "a">>,
    project_id |-> <<"p", "1">>,
    private_key_id |-> <<"9">>,
    private_key |-> <<"-", "K", "\n", "\"", "\\", "=">>,
    client_email |-> <<"a", "@", "b", ".", "e-acute">> ]

\* a key file says of each field whether it is absent, empty or set
FieldStates == {"absent", "empty", "set"}
FieldChoices ==
  { c \in [FieldNames -> FieldStates] :
      \A f \in {"type", "project_id"} : c[f] # "empty" }
ObjectOf(c) ==
  [ key \in { FieldText[f] : f \in { g \in FieldNames : c[g] # "absent" } } |->
      LET f == CHOOSE g \in FieldNames : FieldText[g] = key IN
      IF c[f] = "empty" THEN <<>> ELSE FieldValue[f] ]

\* the text of the file: on one line, or one member a line as Google
\* writes it, or cut short before its closing brace
Layouts == {"compact", "pretty", "cut"}
KeysOf(obj) ==
  LET Present(f) == FieldText[f] \in DOMAIN obj IN
  [ i \in DOMAIN SelectSeq(requiredFields, Present) |->
      FieldText[SelectSeq(requiredFields, Present)[i]] ]
FileText(obj, layout) ==
  CASE layout = "compact" ->
         <<"{">> \o MembersText(obj, KeysOf(obj), <<":">>, <<",">>) \o <<"}">>
    [] layout = "cut" ->
         <<"{">> \o MembersText(obj, KeysOf(obj), <<":">>, <<",">>)
    [] OTHER ->
         IF KeysOf(obj) = <<>> THEN <<"{", "}", "\n">>
         ELSE <<"{", "\n", " ", " ">>
                \o MembersText(obj, KeysOf(obj), <<":", " ">>, <<",", "\n", " ", " ">>)
                \o <<"\n", "}", "\n">>

\* the names of the required fields that obj lacks, in the order checked
missingFields(obj) ==
  LET Missing(field) == Falsy(obj, FieldText[field]) IN SelectSeq(requiredFields, Missing)

\* part_003:27-41, encodeServiceAccountToBase64 from the text it read: the
\* base64 string printed, or the message of the exit
encodeServiceAccountToBase64(jsonContent) ==
  LET serviceAccount == JSONparse(jsonContent) IN
  IF ~serviceAccount.ok
  THEN [ok |-> FALSE, base64 |-> <<>>,
        err |-> <<"File JSON tidak valid:", "Unexpected token in JSON">>]
  ELSE IF Len(missingFields(serviceAccount.obj)) > 0
  THEN [ok |-> FALSE, base64 |-> <<>>,
        err |-> <<"Service account JSON tidak valid. Missing fields: ">>
                  \o Join(missingFields(serviceAccount.obj), ", ")]
  ELSE [ok |-> TRUE, base64 |-> Base64Encode(Utf8Encode(jsonContent)), err |-> <<>>]

\* part_003:123, `cat service-account.json | base64 -w 0`
base64OfFile(jsonContent) == Base64Encode(Utf8Encode(jsonContent))

\* a decoding that requires the five fields of the key file
getServiceAccountCredentialsFrom_FiveFields(base64Credentials) ==
  LET serviceAccount == JSONparse(Utf8Decode(Base64Decode(base64Credentials))) IN
  IF ~serviceAccount.ok
  THEN [ok |-> FALSE, sa |-> EmptyObject,
        err |-> <<"Invalid JSON in GCP_SERVICE_ACCOUNT_BASE64: ", "Unexpected token in JSON">>]
  ELSE IF Len(missingFields(serviceAccount.obj)) > 0
  THEN [ok |-> FALSE, sa |-> EmptyObject,
        err |-> <<"Failed to decode GCP_SERVICE_ACCOUNT_BASE64: ", "Error: ",
                  "Invalid service account credentials: missing ", "client_email", " or ",
                  "private_key">>]
  ELSE [ok |-> TRUE, sa |-> serviceAccount.obj, err |-> <<>>]

\* vertex.ts:58-77, getServiceAccountCredentials from the string it reads
\* at line 61: the service account, or the message thrown
getServiceAccountCredentialsFrom(base64Credentials) ==
  LET serviceAccount == JSONparse(Utf8Decode(Base64Decode(base64Credentials))) IN
  IF ~serviceAccount.ok
  THEN [ok |-> FALSE, sa |-> EmptyObject,
        err |-> <<"Invalid JSON in GCP_SERVICE_ACCOUNT_BASE64: ", "Unexpected token in JSON">>]
  ELSE IF \/ Falsy(serviceAccount.obj, FieldText.client_email)
          \/ Falsy(serviceAccount.obj, FieldText.private_key)
  THEN [ok |-> FALSE, sa |-> EmptyObject,
        err |-> <<"Failed to decode GCP_SERVICE_ACCOUNT_BASE64: ", "Error: ",
                  "Invalid service account credentials: missing ", "client_email", " or ",
                  "private_key">>]
  ELSE [ok |-> TRUE, sa |-> serviceAccount.obj, err |-> <<>>]

\* decode-credentials-example.js:10-40
decodeServiceAccountCredentials(base64String) ==
  LET serviceAccount == JSONparse(Utf8Decode(Base64Decode(base64String))) IN
  IF ~serviceAccount.ok
  THEN [ok |-> FALSE, sa |-> EmptyObject,
        err |-> <<"Invalid JSON in BASE64 string: ", "Unexpected token in JSON">>]
  ELSE IF Len(missingFields(serviceAccount.obj)) > 0
  THEN [ok |-> FALSE, sa |-> EmptyObject,
        err |-> <<"Failed to decode credentials: ", "Missing required fields: ">>
                  \o Join(missingFields(serviceAccount.obj), ", ")]
  ELSE [ok |-> TRUE, sa |-> serviceAccount.obj, err |-> <<>>]

\* what the gateway model keeps of a bundle: whether it is JSON, and
\* whether client_email and private_key are there and not empty
BundleValue(base64Credentials) ==
  LET serviceAccount == JSONparse(Utf8Decode(Base64Decode(base64Credentials))) IN
  IF ~serviceAccount.ok THEN CredGarbage
  ELSE CredJson(IF Falsy(serviceAccount.obj, FieldText.client_email) THEN "" ELSE "sa@proj.iam",
                IF Falsy(serviceAccount.obj, FieldText.private_key) THEN "" ELSE "not-a-pem")

(***************************************************************************)
(* getAccessToken, vertex.ts:79-132, in its two synchronous segments.      *)
(***************************************************************************)
\* `${error}` of the Error caught at line 129, wrapped at line 130
tokenFailure(cause) == <<"Failed to get access token: ">> \o cause

\* line 92: the token of an exchange is good for 3600 seconds from its mint
TokenLifetime == 3600
\* the clock goes on in steps of half a lifetime, MaxTicks steps at most
TickSeconds == TokenLifetime \div 2
MaxTicks == 3

VARIABLE elapsed  \* the steps of the clock since the token in the slot was minted
Expired == elapsed * TickSeconds > TokenLifetime

\* a getAccessToken that drops a cached token whose lifetime is over
getAccessTokenStart_Expiring(self, e) ==
  IF self.accessToken # 0 /\ ~Expired
  THEN [k |-> "hit", token |-> self.accessToken, err |-> <<>>, decoded |-> FALSE]
  ELSE LET c == getServiceAccountCredentials(e) IN
       IF ~c.ok
       THEN [k |-> "throw", token |-> 0, err |-> tokenFailure(<<"Error: ">> \o c.err),
             decoded |-> TRUE]
       ELSE IF jwtSignThrows(c.sa.private_key)
       THEN [k |-> "throw", token |-> 0,
             err |-> tokenFailure(<<"Error: ", "secretOrPrivateKey must be an asymmetric key when using RS256">>),
             decoded |-> TRUE]
       ELSE [k |-> "fetch", token |-> 0, err |-> <<>>, decoded |-> TRUE]

\* a getAccessToken that does not look at the cache slot
getAccessTokenStart_NoCache(self, e) ==
  LET c == getServiceAccountCredentials(e) IN
  IF ~c.ok
  THEN [k |-> "throw", token |-> 0, err |-> <<"Failed to get access token: ", "Error: ">> \o c.err,
        decoded |-> TRUE]
  ELSE IF jwtSignThrows(c.sa.private_key)
  THEN [k |-> "throw", token |-> 0,
        err |-> <<"Failed to get access token: ", "Error: ",
                  "secretOrPrivateKey must be an asymmetric key when using RS256">>,
        decoded |-> TRUE]
  ELSE [k |-> "fetch", token |-> 0, err |-> <<>>, decoded |-> TRUE]

\* lines 80-114, up to the fetch: the cached token is returned, or the
\* credentials are decoded and the assertion signed and the token endpoint is
\* called, or the catch of line 129 throws the wrapped message
getAccessTokenStart(self, e) ==
  IF self.accessToken # 0
  THEN [k |-> "hit", token |-> self.accessToken, err |-> <<>>, decoded |-> FALSE]
  ELSE LET c == getServiceAccountCredentials(e) IN
       IF ~c.ok
       THEN [k |-> "throw", token |-> 0, err |-> tokenFailure(<<"Error: ">> \o c.err),
             decoded |-> TRUE]
       ELSE IF jwtSignThrows(c.sa.private_key)
       THEN [k |-> "throw", token |-> 0,
             err |-> tokenFailure(<<"Error: ", "secretOrPrivateKey must be an asymmetric key when using RS256">>),
             decoded |-> TRUE]
       ELSE [k |-> "fetch", token |-> 0, err |-> <<>>, decoded |-> TRUE]

\* a getAccessToken that returns the new token without storing it
getAccessTokenFinish_NoStore(self, o) ==
  IF o.k = "http" /\ o.status = 200 /\ o.json /\ o.access_token # 0
  THEN [ok |-> TRUE, cache |-> self.accessToken, token |-> o.access_token, err |-> <<>>]
  ELSE [ok |-> FALSE, cache |-> self.accessToken, token |-> 0,
        err |-> <<"Failed to get access token: ", "Error: ", "token exchange failed">>]

\* a getAccessToken that returns whatever access_token the 2xx body holds,
\* an absent one included
getAccessTokenFinish_NoMissingCheck(self, o) ==
  IF o.k = "throw"
  THEN [ok |-> FALSE, cache |-> self.accessToken, token |-> 0,
        err |-> tokenFailure(<<"TypeError: ", "fetch failed">>)]
  ELSE IF o.status # 200
  THEN [ok |-> FALSE, cache |-> self.accessToken, token |-> 0,
        err |-> tokenFailure(<<"Error: ", "Failed to get access token: ",
                               StatusString(o.status), " - ", "token-error-body">>)]
  ELSE IF ~o.json
  THEN [ok |-> FALSE, cache |-> self.accessToken, token |-> 0,
        err |-> tokenFailure(<<"SyntaxError: ", "Unexpected token in JSON">>)]
  ELSE [ok |-> TRUE, cache |-> o.access_token, token |-> o.access_token, err |-> <<>>]

\* a getAccessToken that stores the new token and returns what the slot held
\* before
getAccessTokenFinish_ReturnsOld(self, o) ==
  IF o.k = "throw"
  THEN [ok |-> FALSE, cache |-> self.accessToken, token |-> 0,
        err |-> tokenFailure(<<"TypeError: ", "fetch failed">>)]
  ELSE IF o.status # 200
  THEN [ok |-> FALSE, cache |-> self.accessToken, token |-> 0,
        err |-> tokenFailure(<<"Error: ", "Failed to get access token: ",
                               StatusString(o.status), " - ", "token-error-body">>)]
  ELSE IF ~o.json
  THEN [ok |-> FALSE, cache |-> self.accessToken, token |-> 0,
        err |-> tokenFailure(<<"SyntaxError: ", "Unexpected token in JSON">>)]
  ELSE IF o.access_token = 0
  THEN [ok |-> FALSE, cache |-> o.access_token, token |-> 0,
        err |-> tokenFailure(<<"Error: ", "No access token received from Google OAuth">>)]
  ELSE [ok |-> TRUE, cache |-> o.access_token, token |-> self.accessToken, err |-> <<>>]

\* lines 116-131, after the fetch: the value stored in the cache slot, and the
\* token returned or the message thrown
getAccessTokenFinish(self, o) ==
  IF o.k = "throw"
  THEN [ok |-> FALSE, cache |-> self.accessToken, token |-> 0,
        err |-> tokenFailure(<<"TypeError: ", "fetch failed">>)]
  ELSE IF o.status # 200
  THEN [ok |-> FALSE, cache |-> self.accessToken, token |-> 0,
        err |-> tokenFailure(<<"Error: ", "Failed to get access token: ",
                               StatusString(o.status), " - ", "token-error-body">>)]
  ELSE IF ~o.json
  THEN [ok |-> FALSE, cache |-> self.accessToken, token |-> 0,
        err |-> tokenFailure(<<"SyntaxError: ", "Unexpected token in JSON">>)]
  ELSE IF o.access_token = 0
  THEN [ok |-> FALSE, cache |-> o.access_token, token |-> 0,
        err |-> tokenFailure(<<"Error: ", "No access token received from Google OAuth">>)]
  ELSE [ok |-> TRUE, cache |-> o.access_token, token |-> o.access_token, err |-> <<>>]

(***************************************************************************)
(* generateResponse, vertex.ts:134-293, in its synchronous segments.       *)
(***************************************************************************)
\* what a segment ends with: the call returns (next = "return"), or awaits
\* the token endpoint ("fetchToken") or the generation endpoint ("fetchGen")
Segment(next, outcome, model, temperature, systemPrompt, token, decoded) ==
  [next |-> next, outcome |-> outcome, model |-> model, temperature |-> temperature,
   systemPrompt |-> systemPrompt, token |-> token, decoded |-> decoded]

\* a test mode that does not look at NODE_ENV
testMode_AnyNodeEnv(self, e) ==
  \/ self.projectId = ""
  \/ e.GCP_SERVICE_ACCOUNT_BASE64.k = "unset"

\* lines 172-177
testMode(self, e) ==
  /\ e.NODE_ENV # "production"
  /\ \/ self.projectId = ""
     \/ e.GCP_SERVICE_ACCOUNT_BASE64.k = "unset"

\* a generateResponse that resolves the temperature with || as it does the
\* model and the system prompt
generateResponseStart_TemperatureOr(self, e, request) ==
  LET model == IF request.model # <<>> /\ request.model[1] # ""
               THEN request.model[1] ELSE self.defaultModel
      temperature == IF request.temperature # <<>> /\ request.temperature[1] # 0
                     THEN request.temperature[1] ELSE self.defaultTemperature
      systemPrompt == IF request.systemPrompt # <<>> /\ request.systemPrompt[1] # 0
                      THEN request.systemPrompt[1] ELSE self.defaultSystemPrompt
      Return(result) ==
        Segment("return", Resolved(result), model, temperature, systemPrompt, 0, FALSE)
  IN
  IF ~validateModel(model)
  THEN Return(Result(<<>>, <<"Invalid model: ", model, ". Valid models are: ">>
                             \o Join(VALID_MODELS, ", ")))
  ELSE IF ~validateTemperature(temperature)
  THEN Return(Result(<<>>, <<"Invalid temperature: ", TemperatureString(temperature),
                             ". ", "Temperature", " must be between 0 and 2">>))
  ELSE IF ~validateSystemPrompt(systemPrompt)
  THEN Return(Result(<<>>, <<"Invalid system prompt: must be between 1 and 2000 characters">>))
  ELSE IF testMode(self, e)
  THEN Return(Result(<<TEST_MODE_PREFIX, request.prompt, TEST_MODE_REST>>, <<>>))
  ELSE LET t == getAccessTokenStart(self, e) IN
       IF t.k = "hit"
       THEN Segment("fetchGen", NoOutcome, model, temperature, systemPrompt, t.token, FALSE)
       ELSE IF t.k = "fetch"
       THEN Segment("fetchToken", NoOutcome, model, temperature, systemPrompt, 0, TRUE)
       ELSE Segment("return", generateResponseCatch(t.err), model, temperature,
                    systemPrompt, 0, TRUE)

\* lines 135-209: validation, test mode, and getAccessToken up to its fetch
generateResponseStart(self, e, request) ==
  LET model == IF request.model # <<>> /\ request.model[1] # ""
               THEN request.model[1] ELSE self.defaultModel
      temperature == IF request.temperature # <<>>
                     THEN request.temperature[1] ELSE self.defaultTemperature
      systemPrompt == IF request.systemPrompt # <<>> /\ request.systemPrompt[1] # 0
                      THEN request.systemPrompt[1] ELSE self.defaultSystemPrompt
      Return(result) ==
        Segment("return", Resolved(result), model, temperature, systemPrompt, 0, FALSE)
  IN
  IF ~validateModel(model)
  THEN Return(Result(<<>>, <<"Invalid model: ", model, ". Valid models are: ">>
                             \o Join(VALID_MODELS, ", ")))
  ELSE IF ~validateTemperature(temperature)
  THEN Return(Result(<<>>, <<"Invalid temperature: ", TemperatureString(temperature),
                             ". ", "Temperature", " must be between 0 and 2">>))
  ELSE IF ~validateSystemPrompt(systemPrompt)
  THEN Return(Result(<<>>, <<"Invalid system prompt: must be between 1 and 2000 characters">>))
  ELSE IF testMode(self, e)
  THEN Return(Result(<<TEST_MODE_PREFIX, request.prompt, TEST_MODE_REST>>, <<>>))
  ELSE LET t == getAccessTokenStart(self, e) IN
       IF t.k = "hit"
       THEN Segment("fetchGen", NoOutcome, model, temperature, systemPrompt, t.token, FALSE)
       ELSE IF t.k = "fetch"
       THEN Segment("fetchToken", NoOutcome, model, temperature, systemPrompt, 0, TRUE)
       ELSE Segment("return", generateResponseCatch(t.err), model, temperature,
                    systemPrompt, 0, TRUE)

\* lines 220-284, after the generation fetch, for the call whose resolved
\* model is `model`: the fallback retry (k = "retry"), or the outcome of the
\* call, with the number of times the text extraction ran
Handled(k, outcome, extracts) == [k |-> k, outcome |-> outcome, extracts |-> extracts]

\* a handling that extracts the text first and looks at SAFETY only when
\* there is none
handleCandidate_ExtractFirst(candidate) ==
  IF candidate.k = "null"
  THEN Handled("return", Resolved(Result(<<>>, <<"Cannot read properties of null">>)), 0)
  ELSE LET text == extractTextFromCandidate(candidate) IN
       IF candidate.finishReason = <<"MAX_TOKENS">>
       THEN IF text # ""
            THEN Handled("return", Resolved(Result(<<text, CUT_OFF_NOTICE>>, <<>>)), 1)
            ELSE Handled("return", Resolved(Result(<<TOO_LONG_MESSAGE>>, <<TOO_LONG_ERROR>>)), 1)
       ELSE IF text # ""
       THEN Handled("return", Resolved(Result(Str(text), <<>>)), 1)
       ELSE IF candidate.finishReason = <<"SAFETY">>
       THEN Handled("return", Resolved(Result(<<SAFETY_MESSAGE>>, <<SAFETY_ERROR>>)), 1)
       ELSE Handled("return",
                    Resolved(Result(<<>>, <<"Unable to extract response text from Vertex AI response">>)), 1)

\* a handling that returns the partial text of a MAX_TOKENS candidate
\* without the notice
handleCandidate_NoNotice(candidate) ==
  IF candidate.k = "null"
  THEN Handled("return", Resolved(Result(<<>>, <<"Cannot read properties of null">>)), 0)
  ELSE IF candidate.finishReason = <<"SAFETY">>
  THEN Handled("return", Resolved(Result(<<SAFETY_MESSAGE>>, <<SAFETY_ERROR>>)), 0)
  ELSE LET text == extractTextFromCandidate(candidate) IN
       IF text # ""
       THEN Handled("return", Resolved(Result(Str(text), <<>>)), 1)
       ELSE IF candidate.finishReason = <<"MAX_TOKENS">>
       THEN Handled("return", Resolved(Result(<<TOO_LONG_MESSAGE>>, <<TOO_LONG_ERROR>>)), 1)
       ELSE Handled("return",
                    Resolved(Result(<<>>, <<"Unable to extract response text from Vertex AI response">>)), 1)

\* lines 245-284: the first candidate
handleCandidate(candidate) ==
  IF candidate.k = "null"
  THEN Handled("return",
               generateResponseCatch(<<"Cannot read properties of null (reading 'finishReason')">>), 0)
  ELSE IF candidate.finishReason = <<"MAX_TOKENS">>
  THEN LET partialResponse == extractTextFromCandidate(candidate) IN
       IF partialResponse # ""
       THEN Handled("return", Resolved(Result(<<partialResponse, CUT_OFF_NOTICE>>, <<>>)), 1)
       ELSE Handled("return", Resolved(Result(<<TOO_LONG_MESSAGE>>, <<TOO_LONG_ERROR>>)), 1)
  ELSE IF candidate.finishReason = <<"SAFETY">>
  THEN Handled("return", Resolved(Result(<<SAFETY_MESSAGE>>, <<SAFETY_ERROR>>)), 0)
  ELSE LET responseText == extractTextFromCandidate(candidate) IN
       IF responseText = ""
       THEN Handled("return",
                    generateResponseCatch(<<"Unable to extract response text from Vertex AI response">>), 1)
       ELSE Handled("return", Resolved(Result(Str(responseText), <<>>)), 1)

\* a handling that takes the fallback on every non-2xx status
handleGenerationResponse_RetryAnyStatus(model, o) ==
  IF o.k = "throw"
  THEN Handled("return", generateResponseCatch(<<"fetch failed">>), 0)
  ELSE IF o.status # 200
  THEN IF model # FALLBACK_MODEL
       THEN Handled("retry", NoOutcome, 0)
       ELSE Handled("return",
                    generateResponseCatch(<<"Vertex AI API error: ", StatusString(o.status),
                                            " - ", "upstream-error-body">>), 0)
  ELSE IF ~o.json
  THEN Handled("return", generateResponseCatch(<<"Unexpected token in JSON">>), 0)
  ELSE IF ~o.hasCandidates \/ Len(o.candidates) = 0
  THEN Handled("return", generateResponseCatch(<<"No candidates returned from Vertex AI">>), 0)
  ELSE handleCandidate(o.candidates[1])

\* a handling that consults the last candidate of the list
handleGenerationResponse_LastCandidate(model, o) ==
  IF o.k = "throw"
  THEN Handled("return", generateResponseCatch(<<"fetch failed">>), 0)
  ELSE IF o.status # 200
  THEN IF model # FALLBACK_MODEL /\ o.status = FallbackStatus
       THEN Handled("retry", NoOutcome, 0)
       ELSE Handled("return",
                    generateResponseCatch(<<"Vertex AI API error: ", StatusString(o.status),
                                            " - ", "upstream-error-body">>), 0)
  ELSE IF ~o.json
  THEN Handled("return", generateResponseCatch(<<"Unexpected token in JSON">>), 0)
  ELSE IF ~o.hasCandidates \/ Len(o.candidates) = 0
  THEN Handled("return", generateResponseCatch(<<"No candidates returned from Vertex AI">>), 0)
  ELSE handleCandidate(o.candidates[Len(o.candidates)])

\* a handling that retries on status 400 whatever the model of the call
handleGenerationResponse_RetryFallbackToo(model, o) ==
  IF o.k = "throw"
  THEN Handled("return", generateResponseCatch(<<"fetch failed">>), 0)
  ELSE IF o.status # 200
  THEN IF o.status = FallbackStatus
       THEN Handled("retry", NoOutcome, 0)
       ELSE Handled("return",
                    generateResponseCatch(<<"Vertex AI API error: ", StatusString(o.status),
                                            " - ", "upstream-error-body">>), 0)
  ELSE IF ~o.json
  THEN Handled("return", generateResponseCatch(<<"Unexpected token in JSON">>), 0)
  ELSE IF ~o.hasCandidates \/ Len(o.candidates) = 0
  THEN Handled("return", generateResponseCatch(<<"No candidates returned from Vertex AI">>), 0)
  ELSE handleCandidate(o.candidates[1])

\* lines 220-245: the generation response, up to its first candidate
handleGenerationResponse(model, o) ==
  IF o.k = "throw"
  THEN Handled("return", generateResponseCatch(<<"fetch failed">>), 0)
  ELSE IF o.status # 200
  THEN IF model # FALLBACK_MODEL /\ o.status = FallbackStatus
       THEN Handled("retry", NoOutcome, 0)
       ELSE Handled("return",
                    generateResponseCatch(<<"Vertex AI API error: ", StatusString(o.status),
                                            " - ", "upstream-error-body">>), 0)
  ELSE IF ~o.json
  THEN Handled("return", generateResponseCatch(<<"Unexpected token in JSON">>), 0)
  ELSE IF ~o.hasCandidates \/ Len(o.candidates) = 0
  THEN Handled("return", generateResponseCatch(<<"No candidates returned from Vertex AI">>), 0)
  ELSE handleCandidate(o.candidates[1])

\* a fallback that retries the request as it is, model included
fallbackRequest_SameModel(request) == request

\* lines 229-232: the request of the fallback retry
fallbackRequest(request) == [request EXCEPT !.model = <<FALLBACK_MODEL>>]

(***************************************************************************)
(* The state.                                                              *)
(***************************************************************************)
VARIABLES
  env,          \* process.env
  built,        \* process.env as the constructor of the instance read it
  svc,          \* the fields of the VertexAIService instance
  pc,           \* where the current top-level call of generateResponse is:
                \* "idle", "awaitToken", "awaitGen" or "done"
  request,      \* the request of the current top-level call
  frame,        \* the innermost running invocation of generateResponse: its
                \* request, its resolved model, temperature, systemPrompt and
                \* the access token it got
  depth,        \* how deep that invocation is in the fallback recursion
  outcome,      \* how the top-level call ended for its caller
  net,          \* the network requests the top-level call has issued, in order
  tokenReplies, \* the token responses it has received, in order
  replies,      \* the generation responses it has received, in order
  extractRuns,  \* the times it ran extractTextFromCandidate
  decodes,      \* the times it ran getServiceAccountCredentials
  okGets,       \* getAccessToken calls of the instance that returned a token
                \* (counted up to MaxGets)
  returnedToks, \* the tokens those calls returned
  lateFetch,    \* the token endpoint was called after such a return
  sent,         \* what the HTTP handler answered for the last call returned
  xphase,       \* the extraction on its own: "off", "in" or "out"
  xcand,        \* the candidate given to extractTextFromCandidate
  xout,         \* what it returned
  dphase,       \* the bundle on its own: "off", "file", "exit", "encoded" or
                \* "decoded"
  dobj,         \* the service account object the key file was written from
  dlayout,      \* how it was written
  dfile,        \* the text of the key file
  dbase64,      \* the base64 string made of it
  dwho,         \* who decoded it: "service" (vertex.ts) or "example"
  dres,         \* what the encode script or the decoding gave
  slots,        \* overlapping calls: the cache slot of each instance
  calls,        \* each call of generateResponse: its instance, where it is,
                \* its request, what it resolved, its token and its outcome
  mints,        \* the tokens the successful exchanges of each instance returned
  dispatched,   \* the generation requests sent: <<instance, bearer token>>
  minted        \* how many tokens the token endpoint has issued

vars == <<env, built, svc, pc, request, frame, depth, outcome, net, tokenReplies, replies, extractRuns,
          decodes, okGets, returnedToks, lateFetch, sent, elapsed, xphase, xcand, xout,
          dphase, dobj, dlayout, dfile, dbase64, dwho, dres,
          slots, calls, mints, dispatched, minted>>
xvars == <<xphase, xcand, xout>>
dvars == <<dphase, dobj, dlayout, dfile, dbase64, dwho, dres>>
NoDecoding == [ok |-> FALSE, sa |-> EmptyObject, err |-> <<>>]
\* the bundle is not looked at on its own
DecodeOff ==
  /\ dphase = "off"
  /\ dobj = EmptyObject
  /\ dlayout = "compact"
  /\ dfile = <<>>
  /\ dbase64 = <<>>
  /\ dwho = ""
  /\ dres = NoDecoding
ghosts == <<okGets, returnedToks, lateFetch>>

\* vertex.ts:19-25: every instance has its own accessToken field
NumInstances == 2
Instances == 1..NumInstances
MaxCalls == 2
CallIds == 1..MaxCalls
MaxMints == 2
ovars == <<slots, calls, mints, dispatched, minted>>
NoCall == [pc |-> "idle", inst |-> 0, request |-> NoRequest, model |-> "", temperature |-> 0,
           systemPrompt |-> 0, token |-> 0, depth |-> 0, outcome |-> NoOutcome]
\* no call overlaps another
OverlapOff ==
  /\ slots = [i \in Instances |-> 0]
  /\ calls = [c \in CallIds |-> NoCall]
  /\ mints = [i \in Instances |-> {}]
  /\ dispatched = {}
  /\ minted = 0

NoFrame == [request |-> NoRequest, model |-> "", temperature |-> 0, systemPrompt |-> 0,
            token |-> 0]

Init ==
  /\ env \in Envs
  /\ ~constructorThrows(env)
  /\ built = env
  /\ svc = constructor(env)
  /\ pc = "idle"
  /\ request = NoRequest
  /\ frame = NoFrame
  /\ depth = 0
  /\ outcome = NoOutcome
  /\ net = <<>>
  /\ tokenReplies = <<>>
  /\ replies = <<>>
  /\ extractRuns = 0
  /\ decodes = 0
  /\ okGets = 0
  /\ returnedToks = {}
  /\ lateFetch = FALSE
  /\ sent = NoResponse
  /\ elapsed = 0
  /\ xphase = "off"
  /\ xcand = NullCandidate
  /\ xout = ""
  /\ DecodeOff
  /\ OverlapOff

\* an invocation of generateResponse (the top-level one, or the fallback
\* retry) runs to its first await or to its return
Enter(rq, d, netBase, decBase) ==
  LET st == generateResponseStart(svc, env, rq) IN
  /\ frame' = [request |-> rq, model |-> st.model, temperature |-> st.temperature,
               systemPrompt |-> st.systemPrompt, token |-> st.token]
  /\ depth' = d
  /\ decodes' = IF st.decoded THEN decBase + 1 ELSE decBase
  /\ outcome' = st.outcome
  /\ pc' = CASE st.next = "return" -> "done"
             [] st.next = "fetchToken" -> "awaitToken"
             [] OTHER -> "awaitGen"
  /\ net' = CASE st.next = "return" -> netBase
              [] st.next = "fetchToken" -> Append(netBase, TokenRequest)
              [] OTHER -> Append(netBase, GenRequest(st.model, st.token, st.temperature,
                                                      st.systemPrompt, rq.prompt))
  /\ okGets' = IF st.next = "fetchGen" /\ okGets < MaxGets THEN okGets + 1 ELSE okGets
  /\ returnedToks' = IF st.next = "fetchGen" THEN returnedToks \cup {st.token}
                     ELSE returnedToks
  /\ lateFetch' = (lateFetch \/ (st.next = "fetchToken" /\ okGets > 0))
  /\ svc' = svc
  /\ elapsed' = elapsed

\* a caller calls generateResponse(rq) on the instance
Call(rq) ==
  /\ pc = "idle"
  /\ request' = rq
  /\ tokenReplies' = <<>>
  /\ replies' = <<>>
  /\ extractRuns' = 0
  /\ Enter(rq, 0, <<>>, 0)
  /\ sent' = NoResponse
  /\ UNCHANGED <<env, built, xvars, dvars, ovars>>

\* the token endpoint answers (or the fetch fails) and getAccessToken and
\* generateResponse run on to the generation fetch or to the return
TokenReply(o) ==
  /\ pc = "awaitToken"
  /\ tokenReplies' = Append(tokenReplies, o)
  /\ LET r == getAccessTokenFinish(svc, o) IN
     /\ svc' = [svc EXCEPT !.accessToken = r.cache]
     /\ elapsed' = IF r.ok THEN 0 ELSE elapsed
     /\ IF r.ok
        THEN /\ pc' = "awaitGen"
             /\ frame' = [frame EXCEPT !.token = r.token]
             /\ net' = Append(net, GenRequest(frame.model, r.token, frame.temperature,
                                              frame.systemPrompt, frame.request.prompt))
             /\ outcome' = outcome
             /\ okGets' = IF okGets < MaxGets THEN okGets + 1 ELSE okGets
             /\ returnedToks' = returnedToks \cup {r.token}
        ELSE /\ pc' = "done"
             /\ outcome' = generateResponseCatch(r.err)
             /\ UNCHANGED <<frame, net, okGets, returnedToks>>
  /\ UNCHANGED <<env, built, request, depth, replies, extractRuns, decodes, lateFetch, sent, xvars,
                 dvars, ovars>>

\* the generation endpoint answers (or the fetch fails) and generateResponse
\* runs on to its return, or into the fallback retry up to its first await
GenReply(o) ==
  /\ pc = "awaitGen"
  /\ replies' = Append(replies, o)
  /\ LET h == handleGenerationResponse(frame.model, o) IN
     IF h.k = "retry"
     THEN /\ depth < MaxDepth
          /\ Enter(fallbackRequest(frame.request), depth + 1, net, decodes)
          /\ UNCHANGED <<extractRuns>>
     ELSE /\ pc' = "done"
          /\ outcome' = h.outcome
          /\ extractRuns' = extractRuns + h.extracts
          /\ UNCHANGED <<svc, frame, depth, net, decodes, ghosts, elapsed>>
  /\ UNCHANGED <<env, built, request, tokenReplies, sent, xvars, dvars, ovars>>

\* the caller, the HTTP handler, takes the result and answers; the instance
\* is free for its next call
Return ==
  /\ pc = "done"
  /\ pc' = "idle"
  /\ sent' = handler(outcome)
  /\ request' = NoRequest
  /\ frame' = NoFrame
  /\ depth' = 0
  /\ outcome' = NoOutcome
  /\ net' = <<>>
  /\ tokenReplies' = <<>>
  /\ replies' = <<>>
  /\ extractRuns' = 0
  /\ decodes' = 0
  /\ UNCHANGED <<env, built, svc, ghosts, elapsed, xvars, dvars, ovars>>

Next ==
  \/ \E rq \in Requests : Call(rq)
  \/ \E o \in TokenOutcomes : TokenReply(o)
  \/ \E o \in GenOutcomes : GenReply(o)
  \/ Return

Spec == Init /\ [][Next]_vars

(***************************************************************************)
(* The same instance while time goes by: the token in the slot was minted  *)
(* with `exp: now + 3600` (line 92), and the clock runs on during the      *)
(* awaits and between the calls.                                           *)
(***************************************************************************)
Tick ==
  /\ svc.accessToken # 0
  /\ elapsed < MaxTicks
  /\ elapsed' = elapsed + 1
  /\ UNCHANGED <<env, built, svc, pc, request, frame, depth, outcome, net, tokenReplies, replies,
                 extractRuns, decodes, ghosts, sent, xvars, dvars, ovars>>

ClockNext ==
  \/ Next
  \/ Tick

\* the defaults of model, temperature and system prompt are left unset
ClockInit ==
  /\ Init
  /\ env.VERTEX_DEFAULT_MODEL = ""
  /\ env.VERTEX_DEFAULT_TEMP = <<>>
  /\ env.VERTEX_DEFAULT_SYSTEM_PROMPT = 0

ClockSpec == ClockInit /\ [][ClockNext]_vars

(***************************************************************************)
(* The instance when every fetch it awaits completes, with a response or   *)
(* with a failure: the awaits of lines 107 and 211 (and of the bodies read *)
(* at 118, 121, 234 and 238) resume, so a pending token reply and a        *)
(* pending generation reply are each weakly fair.  Nothing obliges a       *)
(* caller to call, nor to take the result.                                 *)
(***************************************************************************)
\* the defaults of model, temperature and system prompt are left unset
LiveInit ==
  /\ Init
  /\ env.VERTEX_DEFAULT_MODEL = ""
  /\ env.VERTEX_DEFAULT_TEMP = <<>>
  /\ env.VERTEX_DEFAULT_SYSTEM_PROMPT = 0

LiveNext == Next

FetchesComplete ==
  /\ WF_vars(\E o \in TokenOutcomes : TokenReply(o))
  /\ WF_vars(\E o \in GenOutcomes : GenReply(o))

LiveSpec == LiveInit /\ [][LiveNext]_vars /\ FetchesComplete

(***************************************************************************)
(* Overlapping calls.  Several instances of one process, several calls of  *)
(* generateResponse on them, each call resumed at its awaits in any order. *)
(* Between two awaits a call runs alone (one JavaScript thread).  The      *)
(* token endpoint issues a new token at every successful exchange.         *)
(***************************************************************************)
\* the instance as a call finds it: the fields of the constructor and the
\* slot of that instance
Instance(i) == [svc EXCEPT !.accessToken = slots[i]]

OverlapRequests ==
  { [prompt |-> "Halo", model |-> m, temperature |-> <<>>, systemPrompt |-> <<>>] :
      m \in {<<>>, <<"gemini-2.5-pro">>} }
\* a failed exchange, a 2xx reply without a token, or the next new token
OverlapTokenOutcomes ==
  { TokenHttp(401, TRUE, 0), TokenHttp(200, TRUE, 0) }
    \cup { TokenHttp(200, TRUE, minted + 1) : x \in {y \in {1} : minted < MaxMints} }
OverlapGenOutcomes ==
  { GenHttp(FallbackStatus), GenHttp(401),
    GenBody(<<ObjCandidate(<<>>, ContentObj(PartsArr(<<Part(<<"hi">>)>>)), <<>>, NoParts)>>) }

OverlapInit ==
  /\ env = [NODE_ENV |-> "production", GCP_PROJECT_ID |-> "proj",
            GCP_SERVICE_ACCOUNT_BASE64 |-> CredJson("sa@proj.iam", "PEM"),
            VERTEX_DEFAULT_MODEL |-> "", VERTEX_DEFAULT_TEMP |-> <<>>,
            VERTEX_DEFAULT_SYSTEM_PROMPT |-> 0]
  /\ built = env
  /\ svc = constructor(env)
  /\ pc = "idle"
  /\ request = NoRequest
  /\ frame = NoFrame
  /\ depth = 0
  /\ outcome = NoOutcome
  /\ net = <<>>
  /\ tokenReplies = <<>>
  /\ replies = <<>>
  /\ extractRuns = 0
  /\ decodes = 0
  /\ okGets = 0
  /\ returnedToks = {}
  /\ lateFetch = FALSE
  /\ sent = NoResponse
  /\ elapsed = 0
  /\ xphase = "off"
  /\ xcand = NullCandidate
  /\ xout = ""
  /\ DecodeOff
  /\ OverlapOff

OverlapFrozen ==
  UNCHANGED <<env, built, svc, pc, request, frame, depth, outcome, net, tokenReplies, replies,
              extractRuns, decodes, ghosts, sent, elapsed, xvars, dvars>>

\* an invocation of generateResponse of call c on instance i (the call
\* itself, or its fallback retry) runs to its first await or to its return
OverlapEnter(c, i, rq, d) ==
  LET st == generateResponseStart(Instance(i), env, rq) IN
  /\ calls' = [calls EXCEPT ![c] =
                 [pc |-> CASE st.next = "return" -> "done"
                           [] st.next = "fetchToken" -> "awaitToken"
                           [] OTHER -> "awaitGen",
                  inst |-> i, request |-> rq, model |-> st.model,
                  temperature |-> st.temperature, systemPrompt |-> st.systemPrompt,
                  token |-> st.token, depth |-> d, outcome |-> st.outcome]]
  /\ dispatched' = IF st.next = "fetchGen" THEN dispatched \cup {<<i, st.token>>}
                   ELSE dispatched
  /\ UNCHANGED <<slots, mints, minted>>

\* a handler calls generateResponse(rq) on instance i
OverlapCall(c, i, rq) ==
  /\ calls[c].pc = "idle"
  /\ \A b \in CallIds : b < c => calls[b].pc # "idle"
  /\ OverlapEnter(c, i, rq, 0)
  /\ OverlapFrozen

\* the token endpoint answers call c, and its getAccessToken and
\* generateResponse run on to the generation fetch or to the return
OverlapTokenReply(c, o) ==
  /\ calls[c].pc = "awaitToken"
  /\ LET i == calls[c].inst
         r == getAccessTokenFinish(Instance(i), o)
         exchanged == o.k = "http" /\ o.status = 200 /\ o.json /\ o.access_token # 0
     IN
     /\ slots' = [slots EXCEPT ![i] = r.cache]
     /\ mints' = IF exchanged THEN [mints EXCEPT ![i] = @ \cup {o.access_token}] ELSE mints
     /\ minted' = IF exchanged THEN minted + 1 ELSE minted
     /\ IF r.ok
        THEN /\ calls' = [calls EXCEPT ![c].pc = "awaitGen", ![c].token = r.token]
             /\ dispatched' = dispatched \cup {<<i, r.token>>}
        ELSE /\ calls' = [calls EXCEPT ![c].pc = "done",
                                       ![c].outcome = generateResponseCatch(r.err)]
             /\ dispatched' = dispatched
  /\ OverlapFrozen

\* the generation endpoint answers call c, and its generateResponse runs on
\* to its return, or into the fallback retry up to its first await
OverlapGenReply(c, o) ==
  /\ calls[c].pc = "awaitGen"
  /\ LET h == handleGenerationResponse(calls[c].model, o) IN
     IF h.k = "retry"
     THEN /\ calls[c].depth < MaxDepth
          /\ OverlapEnter(c, calls[c].inst, fallbackRequest(calls[c].request),
                          calls[c].depth + 1)
     ELSE /\ calls' = [calls EXCEPT ![c].pc = "done", ![c].outcome = h.outcome]
          /\ UNCHANGED <<slots, mints, dispatched, minted>>
  /\ OverlapFrozen

OverlapNext ==
  \/ \E c \in CallIds, i \in Instances, rq \in OverlapRequests : OverlapCall(c, i, rq)
  \/ \E c \in CallIds : \E o \in OverlapTokenOutcomes : OverlapTokenReply(c, o)
  \/ \E c \in CallIds : \E o \in OverlapGenOutcomes : OverlapGenReply(c, o)

OverlapSpec == OverlapInit /\ [][OverlapNext]_vars

(***************************************************************************)
(* The same instance in a process whose GCP_SERVICE_ACCOUNT_BASE64 is set  *)
(* anew between calls: the constructor read process.env once (lines        *)
(* 26-43), generateResponse and getAccessToken read it at every call       *)
(* (lines 172-173 and 59).                                                 *)
(***************************************************************************)
SetBundle(b) ==
  /\ pc = "idle"
  /\ b # env.GCP_SERVICE_ACCOUNT_BASE64
  /\ env' = [env EXCEPT !.GCP_SERVICE_ACCOUNT_BASE64 = b]
  /\ UNCHANGED <<built, svc, pc, request, frame, depth, outcome, net, tokenReplies, replies,
                 extractRuns, decodes, ghosts, sent, elapsed, xvars, dvars, ovars>>

EnvNext ==
  \/ Next
  \/ \E b \in CredValues : SetBundle(b)

\* the defaults of model, temperature and system prompt are left unset
EnvInit ==
  /\ Init
  /\ env.VERTEX_DEFAULT_MODEL = ""
  /\ env.VERTEX_DEFAULT_TEMP = <<>>
  /\ env.VERTEX_DEFAULT_SYSTEM_PROMPT = 0

EnvSpec == EnvInit /\ [][EnvNext]_vars

(***************************************************************************)
(* The extraction on its own, over every candidate shape of the model.     *)
(***************************************************************************)
ExtractInit ==
  /\ env = [NODE_ENV |-> "development", GCP_PROJECT_ID |-> "proj",
            GCP_SERVICE_ACCOUNT_BASE64 |-> CredJson("sa@proj.iam", "PEM"),
            VERTEX_DEFAULT_MODEL |-> "", VERTEX_DEFAULT_TEMP |-> <<>>,
            VERTEX_DEFAULT_SYSTEM_PROMPT |-> 0]
  /\ built = env
  /\ svc = constructor(env)
  /\ pc = "idle"
  /\ request = NoRequest
  /\ frame = NoFrame
  /\ depth = 0
  /\ outcome = NoOutcome
  /\ net = <<>>
  /\ tokenReplies = <<>>
  /\ replies = <<>>
  /\ extractRuns = 0
  /\ decodes = 0
  /\ okGets = 0
  /\ returnedToks = {}
  /\ lateFetch = FALSE
  /\ sent = NoResponse
  /\ elapsed = 0
  /\ xphase = "in"
  /\ xcand \in Candidates
  /\ xout = ""
  /\ DecodeOff
  /\ OverlapOff

Extract ==
  /\ xphase = "in"
  /\ xout' = extractTextFromCandidate(xcand)
  /\ xphase' = "out"
  /\ UNCHANGED <<env, built, svc, pc, request, frame, depth, outcome, net, tokenReplies, replies,
                 extractRuns, decodes, ghosts, sent, elapsed, xcand, dvars, ovars>>

ExtractNext == Extract

ExtractSpec == ExtractInit /\ [][ExtractNext]_vars

(***************************************************************************)
(* The bundle on its own: a key file is encoded, by the encode script or   *)
(* by `base64 -w 0`, and the string is decoded, by the service or by the   *)
(* example.                                                                *)
(***************************************************************************)
DecodeInit ==
  /\ env = [NODE_ENV |-> "development", GCP_PROJECT_ID |-> "proj",
            GCP_SERVICE_ACCOUNT_BASE64 |-> CredJson("sa@proj.iam", "PEM"),
            VERTEX_DEFAULT_MODEL |-> "", VERTEX_DEFAULT_TEMP |-> <<>>,
            VERTEX_DEFAULT_SYSTEM_PROMPT |-> 0]
  /\ built = env
  /\ svc = constructor(env)
  /\ pc = "idle"
  /\ request = NoRequest
  /\ frame = NoFrame
  /\ depth = 0
  /\ outcome = NoOutcome
  /\ net = <<>>
  /\ tokenReplies = <<>>
  /\ replies = <<>>
  /\ extractRuns = 0
  /\ decodes = 0
  /\ okGets = 0
  /\ returnedToks = {}
  /\ lateFetch = FALSE
  /\ sent = NoResponse
  /\ elapsed = 0
  /\ xphase = "off"
  /\ xcand = NullCandidate
  /\ xout = ""
  /\ dphase = "file"
  /\ \E c \in FieldChoices : dobj = ObjectOf(c)
  /\ dlayout \in Layouts
  /\ dfile = FileText(dobj, dlayout)
  /\ dbase64 = <<>>
  /\ dwho = ""
  /\ dres = NoDecoding
  /\ OverlapOff

Frozen ==
  UNCHANGED <<env, built, svc, pc, request, frame, depth, outcome, net, tokenReplies, replies,
              extractRuns, decodes, ghosts, sent, elapsed, xvars, dobj, dlayout, dfile, ovars>>

\* node scripts/encode-credentials.js service-account.json
EncodeScript ==
  /\ dphase = "file"
  /\ LET r == encodeServiceAccountToBase64(dfile) IN
     /\ dphase' = IF r.ok THEN "encoded" ELSE "exit"
     /\ dbase64' = r.base64
     /\ dres' = [ok |-> r.ok, sa |-> EmptyObject, err |-> r.err]
  /\ dwho' = "script"
  /\ Frozen

\* cat service-account.json | base64 -w 0
EncodeCat ==
  /\ dphase = "file"
  /\ dphase' = "encoded"
  /\ dbase64' = base64OfFile(dfile)
  /\ dwho' = "cat"
  /\ dres' = NoDecoding
  /\ Frozen

\* the service decodes the string it finds in GCP_SERVICE_ACCOUNT_BASE64
DecodeService ==
  /\ dphase = "encoded"
  /\ dphase' = "decoded"
  /\ dwho' = "service"
  /\ dres' = getServiceAccountCredentialsFrom(dbase64)
  /\ UNCHANGED dbase64
  /\ Frozen

\* the example decodes it
DecodeExample ==
  /\ dphase = "encoded"
  /\ dphase' = "decoded"
  /\ dwho' = "example"
  /\ dres' = decodeServiceAccountCredentials(dbase64)
  /\ UNCHANGED dbase64
  /\ Frozen

DecodeNext ==
  \/ EncodeScript
  \/ EncodeCat
  \/ DecodeService
  \/ DecodeExample

DecodeSpec == DecodeInit /\ [][DecodeNext]_vars

(***************************************************************************)
(* Notions the properties share.                                           *)
(***************************************************************************)
IsGen(r) == r.kind = "gen"
IsToken(r) == r.kind = "token"
\* the generation requests, and the token requests, of the current call
GenRequests == SelectSeq(net, IsGen)
TokenRequests == SelectSeq(net, IsToken)

\* the model and the temperature the current request resolves to: the
\* request's value, or the configured default
ResolvedModel ==
  IF request.model # <<>> /\ request.model[1] # "" THEN request.model[1]
  ELSE svc.defaultModel
ResolvedTemperature ==
  IF request.temperature # <<>> THEN request.temperature[1] ELSE svc.defaultTemperature
InAllowList(m) == m \in {VALID_MODELS[i] : i \in DOMAIN VALID_MODELS}

Returns == pc = "done"
result == outcome.value

IsHttp(o, status) == o.k = "http" /\ o.status = status
LastReply == replies[Len(replies)]
\* the generation response is a 2xx JSON body whose first candidate is an
\* object with the finish reason fr
FirstCandidateFinished(o, fr) ==
  /\ IsHttp(o, 200) /\ o.json /\ o.hasCandidates /\ Len(o.candidates) > 0
  /\ o.candidates[1].k = "obj"
  /\ o.candidates[1].finishReason = <<fr>>

(***************************************************************************)
(* C1.  When the generation endpoint answers 400 to a request whose        *)
(* resolved model is not the fallback model, exactly one further           *)
(* generation request is issued, with the fallback model and the same      *)
(* prompt, temperature and systemPrompt, and the call returns what that    *)
(* retry gives; no second retry is issued, whatever the retry's status.    *)
(***************************************************************************)
FallbackTaken ==
  /\ Len(replies) >= 1
  /\ IsHttp(replies[1], FallbackStatus)
  /\ GenRequests[1].model # FALLBACK_MODEL

C1_FallbackRetriesOnce ==
  FallbackTaken =>
    /\ Len(GenRequests) = 2
    /\ GenRequests[2].model = FALLBACK_MODEL
    /\ GenRequests[2].prompt = GenRequests[1].prompt
    /\ GenRequests[2].temperature = GenRequests[1].temperature
    /\ GenRequests[2].systemPrompt = GenRequests[1].systemPrompt
    /\ Len(replies) <= 2
    /\ Len(replies) = 2 =>
         /\ Returns
         /\ outcome.kind = "resolved"
         /\ IF replies[2].k = "http" /\ replies[2].status # 200
            THEN /\ result.response = <<>>
                 /\ Contains(result.error, StatusString(replies[2].status))
            ELSE outcome = handleGenerationResponse(FALLBACK_MODEL, replies[2]).outcome
    /\ Returns => Len(replies) = 2

\* the retry was itself answered 400 and the call returned
C1_Witness ==
  /\ Returns /\ FallbackTaken
  /\ Len(replies) = 2 /\ IsHttp(replies[2], FallbackStatus)

(***************************************************************************)
(* C2.  A getAccessToken call made while the cache slot holds a token      *)
(* returns that very token and neither calls the token endpoint nor        *)
(* decodes the credentials; so all successful getAccessToken calls of an   *)
(* instance return one and the same token, and the token endpoint is not   *)
(* contacted again after the first of them.                                *)
(***************************************************************************)
\* a step in which an invocation of generateResponse starts while the slot
\* holds a token: the top-level call, or the fallback retry
StartsWithCachedToken ==
  /\ svc.accessToken # 0
  /\ \/ pc = "idle" /\ pc' # "idle"
     \/ pc = "awaitGen" /\ depth' > depth

CacheHitStep ==
  StartsWithCachedToken =>
    /\ svc'.accessToken = svc.accessToken
    /\ pc' # "awaitToken"
    /\ SelectSeq(net', IsToken) = (IF pc = "idle" THEN <<>> ELSE TokenRequests)
    /\ decodes' = (IF pc = "idle" THEN 0 ELSE decodes)
    /\ pc' = "awaitGen" =>
         /\ frame'.token = svc.accessToken
         /\ net'[Len(net')].token = svc.accessToken

OneTokenReturned ==
  okGets >= 1 =>
    /\ returnedToks = {svc.accessToken}
    /\ svc.accessToken \in Tokens
    /\ ~lateFetch

C2_CachedTokenReused == []OneTokenReturned /\ [][CacheHitStep]_vars

\* a second getAccessToken call of the instance has returned a token
C2_Witness == okGets >= 2 /\ Cardinality(returnedToks) = 1 /\ Len(TokenRequests) = 0

(***************************************************************************)
(* C3.  As stated: a call whose resolved temperature lies outside [0,2]    *)
(* returns response '' and an error containing "Temperature", and calls    *)
(* neither endpoint.                                                       *)
(***************************************************************************)
TemperatureOutOfRange ==
  ResolvedTemperature < MinTemperature \/ ResolvedTemperature > MaxTemperature

TemperatureRejected ==
  /\ outcome.kind = "resolved"
  /\ result.response = <<>>
  /\ Contains(result.error, "Temperature")
  /\ net = <<>>

C3_Original == (Returns /\ TemperatureOutOfRange) => TemperatureRejected

(***************************************************************************)
(* C3, amended.  A call whose resolved model is in the allow-list and      *)
(* whose resolved temperature lies outside [0,2] returns response '' and   *)
(* an error containing "Temperature", and calls neither endpoint.  (The    *)
(* model is validated first: with an invalid model the error is the        *)
(* model's.)                                                               *)
(***************************************************************************)
C3_TemperatureRejected ==
  (Returns /\ InAllowList(ResolvedModel) /\ TemperatureOutOfRange) => TemperatureRejected

\* the request has no temperature and the configured default is out of range
C3_Witness ==
  /\ Returns /\ InAllowList(ResolvedModel)
  /\ request.temperature = <<>> /\ svc.defaultTemperature > MaxTemperature
  /\ Contains(result.error, "Temperature")

(***************************************************************************)
(* C4.  A call whose resolved model is not in the allow-list returns       *)
(* response '' and an error that names every model of the allow-list, and  *)
(* calls neither endpoint.                                                 *)
(***************************************************************************)
C4_InvalidModelRejected ==
  (Returns /\ ~InAllowList(ResolvedModel)) =>
    /\ outcome.kind = "resolved"
    /\ result.response = <<>>
    /\ \A i \in DOMAIN VALID_MODELS : Contains(result.error, VALID_MODELS[i])
    /\ net = <<>>

\* the request has no model and the configured default is not allowed
C4_Witness ==
  /\ Returns /\ request.model = <<>> /\ ~InAllowList(svc.defaultModel)
  /\ Contains(result.error, "Invalid model: ")

(***************************************************************************)
(* C5.  As stated: in every result, a non-empty response and a set error   *)
(* are never both present; whenever error is set the response is ''.       *)
(***************************************************************************)
C5_Original ==
  Returns => (result.error # <<>> => result.response = <<>>)

(***************************************************************************)
(* C5, amended.  Whenever error is set the response is '', except in the   *)
(* two results that pair a fixed user-facing message with an error tag:    *)
(* the SAFETY finish reason (safety message, safety tag) and the           *)
(* MAX_TOKENS finish reason with an empty extraction ("too long" message,  *)
(* token-limit tag).                                                       *)
(***************************************************************************)
IsSafetyResult ==
  /\ Len(replies) >= 1 /\ FirstCandidateFinished(LastReply, "SAFETY")
  /\ result = Result(<<SAFETY_MESSAGE>>, <<SAFETY_ERROR>>)
IsTooLongResult ==
  /\ Len(replies) >= 1 /\ FirstCandidateFinished(LastReply, "MAX_TOKENS")
  /\ extractTextFromCandidate(LastReply.candidates[1]) = ""
  /\ result = Result(<<TOO_LONG_MESSAGE>>, <<TOO_LONG_ERROR>>)

C5_ErrorMeansEmptyResponse ==
  (Returns /\ result.error # <<>>) =>
    \/ result.response = <<>>
    \/ IsSafetyResult
    \/ IsTooLongResult

\* an upstream error was returned: error set, response ''
C5_Witness ==
  /\ Returns /\ Len(replies) = 1 /\ IsHttp(LastReply, 500)
  /\ result.error # <<>> /\ result.response = <<>>

(***************************************************************************)
(* C6.  Whatever the credentials decode to and whatever the token and the  *)
(* generation endpoint answer, a call of generateResponse ends resolved    *)
(* with a {response, error?} result and never rejected.                    *)
(***************************************************************************)
C6_NeverRejects ==
  /\ Returns => outcome.kind = "resolved"
  /\ ~Returns => outcome.kind = "none"

\* the first candidate was null: reading its finishReason threw
C6_Witness ==
  /\ Returns /\ Len(replies) >= 1
  /\ IsHttp(LastReply, 200) /\ LastReply.hasCandidates
  /\ Len(LastReply.candidates) > 0 /\ LastReply.candidates[1].k = "null"
  /\ outcome.kind = "resolved" /\ result.error # <<>>

(***************************************************************************)
(* C7.  When the first candidate of a 2xx generation response has          *)
(* finishReason SAFETY, the result is the fixed safety message with the    *)
(* safety error tag, whatever else the candidate holds, and the text       *)
(* extraction is not run.                                                  *)
(***************************************************************************)
C7_SafetyBlocked ==
  (Returns /\ Len(replies) >= 1 /\ FirstCandidateFinished(LastReply, "SAFETY")) =>
    /\ result = Result(<<SAFETY_MESSAGE>>, <<SAFETY_ERROR>>)
    /\ extractRuns = 0

\* a SAFETY candidate that carries extractable text
C7_Witness ==
  /\ Returns /\ Len(replies) >= 1 /\ FirstCandidateFinished(LastReply, "SAFETY")
  /\ extractTextFromCandidate(LastReply.candidates[1]) = "hi"

(***************************************************************************)
(* C8.  When the first candidate of a 2xx generation response has          *)
(* finishReason MAX_TOKENS: a non-empty extraction gives that text         *)
(* followed by the truncation notice and no error; an empty extraction     *)
(* gives the fixed "too long" message with the token-limit error tag.      *)
(***************************************************************************)
C8_MaxTokens ==
  (Returns /\ Len(replies) >= 1 /\ FirstCandidateFinished(LastReply, "MAX_TOKENS")) =>
    LET text == extractTextFromCandidate(LastReply.candidates[1]) IN
    IF text # ""
    THEN result = Result(<<text, CUT_OFF_NOTICE>>, <<>>)
    ELSE result = Result(<<TOO_LONG_MESSAGE>>, <<TOO_LONG_ERROR>>)

\* a MAX_TOKENS candidate with partial text
C8_Witness ==
  /\ Returns /\ Len(replies) >= 1 /\ FirstCandidateFinished(LastReply, "MAX_TOKENS")
  /\ result.response = <<"hi", CUT_OFF_NOTICE>>

(***************************************************************************)
(* C9.  extractText returns the value of the first matching case in the    *)
(* order: (1) the candidate is a string, (2) content.parts[0].text,        *)
(* (3) content is a string, (4) top-level text, (5) top-level              *)
(* parts[0].text, (6) otherwise ''.  A case matches when the value it      *)
(* names is there and not empty; a field that is absent or null on the     *)
(* way does not match.                                                     *)
(***************************************************************************)
\* x?.parts?.[0]?.text
FirstPartText(parts) ==
  IF parts.k = "arr" /\ Len(parts.items) > 0 /\ parts.items[1].k = "obj"
  THEN parts.items[1].text ELSE <<>>

PrecedenceText(c) ==
  IF c.k = "str" THEN c.s
  ELSE IF c.k = "null" THEN ""
  ELSE IF c.content.k = "obj" /\ TruthyText(FirstPartText(c.content.parts))
       THEN FirstPartText(c.content.parts)[1]
  ELSE IF c.content.k = "str" /\ c.content.s # "" THEN c.content.s
  ELSE IF TruthyText(c.text) THEN c.text[1]
  ELSE IF TruthyText(FirstPartText(c.parts)) THEN FirstPartText(c.parts)[1]
  ELSE ""

C9_Precedence == xphase = "out" => xout = PrecedenceText(xcand)

(***************************************************************************)
(* C10.  One top-level call issues at most one token request and at most   *)
(* two generation requests, one after another; the token exchange, when    *)
(* there is one, is the first request and has succeeded before the first   *)
(* generation request; every generation request of the call, the fallback  *)
(* retry included, carries the same token.                                 *)
(***************************************************************************)
C10_NetworkCalls ==
  /\ Len(TokenRequests) <= 1
  /\ Len(GenRequests) <= 2
  /\ \A i \in DOMAIN net : net[i].kind = "token" => i = 1
  /\ Len(net) - (Len(tokenReplies) + Len(replies)) \in {0, 1}
  /\ (Len(net) - (Len(tokenReplies) + Len(replies)) = 1) <=> pc \in {"awaitToken", "awaitGen"}
  /\ (Len(TokenRequests) = 1 /\ Len(GenRequests) >= 1) =>
       /\ Len(tokenReplies) = 1
       /\ IsHttp(tokenReplies[1], 200)
       /\ tokenReplies[1].access_token = GenRequests[1].token
  /\ \A i \in DOMAIN GenRequests :
       GenRequests[i].token \in Tokens /\ GenRequests[i].token = GenRequests[1].token

\* a token exchange, a generation request answered 400 and the retry
C10_Witness ==
  /\ Returns /\ Len(net) = 3
  /\ net[1].kind = "token" /\ net[2].kind = "gen" /\ net[3].kind = "gen"

(***************************************************************************)
(* Notions the error-handling properties share.                            *)
(***************************************************************************)
\* the request rq passes the three validations of generateResponse on the
\* instance
ResolvedSystemPromptOf(rq) ==
  IF rq.systemPrompt # <<>> /\ rq.systemPrompt[1] # 0 THEN rq.systemPrompt[1]
  ELSE svc.defaultSystemPrompt
PassesValidation(rq) ==
  /\ InAllowList(IF rq.model # <<>> /\ rq.model[1] # "" THEN rq.model[1]
                 ELSE svc.defaultModel)
  /\ LET t == IF rq.temperature # <<>> THEN rq.temperature[1] ELSE svc.defaultTemperature
     IN t >= MinTemperature /\ t <= MaxTemperature
  /\ ResolvedSystemPromptOf(rq) >= 1
  /\ ResolvedSystemPromptOf(rq) <= MaxSystemPromptLen
PassedValidation == pc # "idle" /\ PassesValidation(request)

\* the configured bundle is not JSON, or is JSON without a non-empty
\* client_email or private_key
Bundle == env.GCP_SERVICE_ACCOUNT_BASE64
BundleNotJson == Bundle.k = "garbage"
BundleLacksField ==
  Bundle.k = "json" /\ (Bundle.client_email = "" \/ Bundle.private_key = "")
BundleUnset == Bundle.k = "unset"
\* development with no project ID or no bundle configured
TestModeApplies ==
  env.NODE_ENV # "production" /\ (svc.projectId = "" \/ BundleUnset)
IsMockResult ==
  /\ outcome.kind = "resolved"
  /\ result.response = <<TEST_MODE_PREFIX, request.prompt, TEST_MODE_REST>>
  /\ result.error = <<>>
IsErrorResult ==
  /\ outcome.kind = "resolved"
  /\ result.response = <<>>
  /\ result.error # <<>>

(***************************************************************************)
(* C11.  When the bundle cannot be decoded to JSON, or decodes to JSON     *)
(* whose client_email or private_key is absent or empty, a call that       *)
(* passed validation returns response '' with an error that preserves the  *)
(* text of the cause, and no network call is made.  As stated this fails   *)
(* in development with no project ID, where the call is answered in test   *)
(* mode before the bundle is looked at; it holds wherever test mode does   *)
(* not apply.                                                              *)
(***************************************************************************)
BundleFailureReported ==
  /\ IsErrorResult
  /\ BundleNotJson =>
       /\ Contains(result.error, "Invalid JSON in GCP_SERVICE_ACCOUNT_BASE64: ")
       /\ Contains(result.error, "Unexpected token in JSON")
  /\ BundleLacksField =>
       /\ Contains(result.error, "Invalid service account credentials: missing ")
       /\ Contains(result.error, "client_email")
       /\ Contains(result.error, "private_key")
  /\ net = <<>>

C11_Original ==
  (Returns /\ PassedValidation /\ (BundleNotJson \/ BundleLacksField))
    => BundleFailureReported

C11_UndecodableBundle ==
  (Returns /\ PassedValidation /\ (BundleNotJson \/ BundleLacksField) /\ ~TestModeApplies)
    => BundleFailureReported

C11_Witness ==
  /\ Returns /\ PassedValidation /\ BundleLacksField /\ ~TestModeApplies
  /\ Bundle.client_email = "" /\ Bundle.private_key # ""
  /\ env.NODE_ENV = "development"
  /\ decodes = 1

(***************************************************************************)
(* C12.  When the token exchange fails, with a non-2xx status or with a    *)
(* 2xx body that has no access_token, the call returns response '' with    *)
(* an error (carrying the status and the body text in the non-2xx case),   *)
(* no generation request is issued and the cache slot holds no token; and  *)
(* a call that finds the slot empty, passes validation and is not answered *)
(* in test mode goes to the token endpoint again.                          *)
(***************************************************************************)
ExchangeRefused(o) == o.k = "http" /\ o.status # 200
ExchangeWithoutToken(o) == IsHttp(o, 200) /\ o.json /\ o.access_token = 0
TokenExchangeFailed ==
  /\ Len(tokenReplies) >= 1
  /\ ExchangeRefused(tokenReplies[1]) \/ ExchangeWithoutToken(tokenReplies[1])

ExchangeFailureReported ==
  TokenExchangeFailed =>
    /\ Returns
    /\ IsErrorResult
    /\ ExchangeRefused(tokenReplies[1]) =>
         /\ Contains(result.error, StatusString(tokenReplies[1].status))
         /\ Contains(result.error, "token-error-body")
    /\ GenRequests = <<>>
    /\ svc.accessToken = 0

\* a call on an instance whose slot is empty, with a bundle that decodes and
\* signs, exchanges again
EmptySlotExchanges ==
  (/\ pc = "idle" /\ pc' # "idle"
   /\ svc.accessToken = 0
   /\ PassesValidation(request')
   /\ ~TestModeApplies
   /\ Bundle.k = "json" /\ ~BundleLacksField /\ ~jwtSignThrows(Bundle.private_key))
    => (pc' = "awaitToken" /\ net' = <<TokenRequest>>)

C12_TokenExchangeFails == []ExchangeFailureReported /\ [][EmptySlotExchanges]_vars

C12_Witness ==
  /\ TokenExchangeFailed /\ ExchangeWithoutToken(tokenReplies[1])
  /\ Returns /\ IsErrorResult
  /\ net = <<TokenRequest>>

(***************************************************************************)
(* C13.  For every call that supplies a systemPrompt, a length outside     *)
(* [1,2000], the empty string included, yields a validation error with     *)
(* response '' and no network call; the configured default is used only    *)
(* when the request supplies none.                                         *)
(***************************************************************************)
SuppliesSystemPrompt == pc # "idle" /\ request.systemPrompt # <<>>
SystemPromptOutOfRange ==
  /\ SuppliesSystemPrompt
  /\ request.systemPrompt[1] < 1 \/ request.systemPrompt[1] > MaxSystemPromptLen

C13_SystemPromptValidated ==
  /\ (Returns /\ SystemPromptOutOfRange) => (IsErrorResult /\ net = <<>>)
  /\ SuppliesSystemPrompt => frame.systemPrompt = request.systemPrompt[1]

\* the same with the empty string set aside: what remains of C13 holds
SystemPromptTooLong == SuppliesSystemPrompt /\ request.systemPrompt[1] > MaxSystemPromptLen
C13_TooLongRejected ==
  /\ (Returns /\ SystemPromptTooLong) => (IsErrorResult /\ net = <<>>)
  /\ (SuppliesSystemPrompt /\ request.systemPrompt[1] # 0)
       => frame.systemPrompt = request.systemPrompt[1]

(***************************************************************************)
(* C14.  When the generation endpoint answers non-2xx and either the       *)
(* resolved model is the fallback model or the status is not 400, no       *)
(* retry is issued and the call returns response '' with an error          *)
(* carrying the upstream status and body text.                             *)
(***************************************************************************)
NoFallbackFor(i) ==
  /\ replies[i].k = "http" /\ replies[i].status # 200
  /\ GenRequests[i].model = FALLBACK_MODEL \/ replies[i].status # FallbackStatus

C14_UpstreamErrorSurfaced ==
  \A i \in DOMAIN replies :
    NoFallbackFor(i) =>
      /\ i = Len(replies)
      /\ Len(GenRequests) = i
      /\ Returns
      /\ IsErrorResult
      /\ Contains(result.error, StatusString(replies[i].status))
      /\ Contains(result.error, "upstream-error-body")

C14_Witness ==
  /\ Len(replies) = 1 /\ NoFallbackFor(1)
  /\ GenRequests[1].model # FALLBACK_MODEL
  /\ replies[1].status = 401
  /\ Returns

(***************************************************************************)
(* C19.  For a 2xx generation response: with no candidates (the list       *)
(* absent or empty), or with a first candidate that has a normal finish    *)
(* reason and on which the text extraction is empty, the call returns      *)
(* response '' with an error; when the extraction is not empty the result  *)
(* is exactly the extracted text with no error.  Only the first candidate  *)
(* is consulted.                                                           *)
(***************************************************************************)
IsJsonBody(o) == IsHttp(o, 200) /\ o.json
HasNoCandidates(o) == ~o.hasCandidates \/ Len(o.candidates) = 0
NormalFinish(c) == c.finishReason \notin {<<"MAX_TOKENS">>, <<"SAFETY">>}

C19_FirstCandidateDecides ==
  (Returns /\ Len(replies) >= 1 /\ IsJsonBody(LastReply)) =>
    /\ HasNoCandidates(LastReply) => (IsErrorResult /\ extractRuns = 0)
    /\ (~HasNoCandidates(LastReply) /\ NormalFinish(LastReply.candidates[1])) =>
         LET text == extractTextFromCandidate(LastReply.candidates[1]) IN
         /\ text = "" => IsErrorResult
         /\ text # "" => (outcome.kind = "resolved" /\ result = Result(<<text>>, <<>>))
         /\ extractRuns <= 1

\* the response has two candidates, the first without text and the second
\* with text: the call returns the error
C19_Witness ==
  /\ Returns /\ Len(replies) >= 1 /\ IsJsonBody(LastReply)
  /\ ~HasNoCandidates(LastReply)
  /\ Len(LastReply.candidates) = 2
  /\ NormalFinish(LastReply.candidates[1])
  /\ extractTextFromCandidate(LastReply.candidates[1]) = ""
  /\ extractTextFromCandidate(LastReply.candidates[2]) # ""
  /\ IsErrorResult

(***************************************************************************)
(* C20.  For every candidate, one that is null or has null or absent       *)
(* nested fields included, extractText behaves as if every field access    *)
(* were optional-chained: it does not raise, and a null or absent nested   *)
(* field in an earlier case does not keep a later matching case from       *)
(* returning its text.                                                     *)
(***************************************************************************)
\* the body of extractTextFromCandidate, in the order of its tests, with
\* every access written ?.
OptionalChainedText(c) ==
  LET contentPart == IF c.content.k = "obj" THEN FirstPartText(c.content.parts) ELSE <<>>
      topPart == FirstPartText(c.parts)
  IN
  IF c.k = "null" THEN ""
  ELSE IF TruthyText(contentPart) THEN contentPart[1]
  ELSE IF c.content.k = "str" /\ c.content.s # "" THEN c.content.s
  ELSE IF TruthyText(c.text) THEN c.text[1]
  ELSE IF TruthyText(topPart) THEN topPart[1]
  ELSE IF c.k = "str" THEN c.s
  ELSE ""

C20_OptionalChained == xphase = "out" => xout = OptionalChainedText(xcand)

\* the part of C20 that holds: nothing is raised to the caller (xout is a
\* string for every candidate), and on a candidate where no access throws
\* the result is the optional-chained one
C20_AgreesWhereNoAccessThrows ==
  xphase = "out" =>
    (~extractTextBody(xcand).threw => xout = OptionalChainedText(xcand))

(***************************************************************************)
(* C17.  In production there is no fallback to test mode: an instance is   *)
(* constructed only when the project ID and the credential bundle are      *)
(* configured, and generateResponse never returns the test-mode mock       *)
(* response, whatever the configuration is when it is called.              *)
(***************************************************************************)
InProduction == env.NODE_ENV = "production"

C17_NoTestModeInProduction ==
  InProduction =>
    /\ built.GCP_PROJECT_ID # "" /\ built.GCP_SERVICE_ACCOUNT_BASE64.k # "unset"
    /\ svc.projectId # ""
    /\ Returns => ~IsMockResult
    /\ (Returns /\ outcome.kind = "resolved") =>
         ~Contains(result.response, TEST_MODE_PREFIX)

\* a production instance is called after the bundle was unset: the call
\* passes validation and returns an error
C17_Witness ==
  /\ InProduction /\ BundleUnset
  /\ Returns /\ PassedValidation
  /\ IsErrorResult /\ net = <<>>

(***************************************************************************)
(* C18.  In development, whenever the credentials are missing or invalid,  *)
(* a call that passes validation falls back to the test-mode mock          *)
(* response instead of returning an error, and makes no network call.      *)
(***************************************************************************)
BundleKeyUnusable ==
  Bundle.k = "json" /\ ~BundleLacksField /\ jwtSignThrows(Bundle.private_key)
CredentialsMissingOrInvalid ==
  BundleUnset \/ BundleNotJson \/ BundleLacksField \/ BundleKeyUnusable

C18_DevelopmentFallsBack ==
  (Returns /\ ~InProduction /\ PassedValidation /\ CredentialsMissingOrInvalid)
    => (IsMockResult /\ net = <<>>)

\* what the code does of it: the fallback when the bundle is missing
C18_MissingBundleFallsBack ==
  (Returns /\ ~InProduction /\ PassedValidation /\ BundleUnset)
    => (IsMockResult /\ net = <<>>)

(***************************************************************************)
(* Notions the properties of the bundle share.                             *)
(***************************************************************************)
\* the key file is the whole JSON text of dobj
WholeFile == dlayout # "cut"
DecodedBy(who) == dphase = "decoded" /\ dwho = who
\* client_email and private_key are there and not empty
HasCredentialFields(obj) ==
  ~Falsy(obj, FieldText.client_email) /\ ~Falsy(obj, FieldText.private_key)
HasAllFields(obj) == \A f \in FieldNames : ~Falsy(obj, FieldText[f])

\* the gateway model's decoding of what it keeps of a bundle gives the
\* outcome and the message of the decoding of the string itself
BundleAbstraction ==
  DecodedBy("service") =>
    LET a == getServiceAccountCredentials(
               [env EXCEPT !.GCP_SERVICE_ACCOUNT_BASE64 = BundleValue(dbase64)])
    IN a.ok = dres.ok /\ a.err = dres.err

C15_ScriptAndExample ==
  /\ (dphase = "encoded" /\ dwho = "script") =>
       (WholeFile /\ HasAllFields(dobj) /\ dbase64 = base64OfFile(dfile))
  /\ (dphase = "exit" /\ WholeFile) => ~HasAllFields(dobj)
  /\ (DecodedBy("example") /\ WholeFile /\ HasAllFields(dobj)) =>
       (dres.ok /\ dres.sa = dobj)
  /\ (DecodedBy("example") /\ WholeFile /\ ~HasAllFields(dobj)) => ~dres.ok

(***************************************************************************)
(* C16.  For every input that decodes to valid JSON lacking client_email   *)
(* or private_key, decode fails with a missing-fields error whose message  *)
(* names exactly the absent fields, comma-joined in the order checked, and *)
(* names no field that is present.                                         *)
(***************************************************************************)
LacksCredentialField == WholeFile /\ ~HasCredentialFields(dobj)
IsFieldName(w) == w \in FieldNames
\* the field names a message has, in the order it has them
NamedFields(msg) == SelectSeq(msg, IsFieldName)
\* the message ends with the names `names`, comma-joined, and has no field
\* name before them
EndsWithJoined(msg, names) ==
  LET list == Join(names, ", ") IN
  /\ Len(list) <= Len(msg)
  /\ SubSeq(msg, Len(msg) - Len(list) + 1, Len(msg)) = list
  /\ NamedFields(SubSeq(msg, 1, Len(msg) - Len(list))) = <<>>
\* vertex.ts:65 tests client_email, then private_key
checkedByService == <<"client_email", "private_key">>
AbsentOf(checked) ==
  LET Absent(field) == Falsy(dobj, FieldText[field]) IN SelectSeq(checked, Absent)

C16_MissingFieldsNamed ==
  (DecodedBy("service") /\ LacksCredentialField) =>
    /\ ~dres.ok
    /\ \A f \in FieldNames : Contains(dres.err, f) => Falsy(dobj, FieldText[f])
    /\ NamedFields(dres.err) = AbsentOf(checkedByService)
    /\ EndsWithJoined(dres.err, AbsentOf(checkedByService))

\* the service does fail on such an input, with the one message it has
C16_ServiceFails ==
  (DecodedBy("service") /\ LacksCredentialField) =>
    /\ ~dres.ok
    /\ NamedFields(dres.err) = checkedByService

\* the example names exactly the absent ones of its five fields
C16_ExampleNamesAbsent ==
  (DecodedBy("example") /\ WholeFile /\ ~HasAllFields(dobj)) =>
    /\ ~dres.ok
    /\ \A f \in FieldNames : Contains(dres.err, f) <=> Falsy(dobj, FieldText[f])
    /\ EndsWithJoined(dres.err, AbsentOf(requiredFields))

(***************************************************************************)
(* C24.  A supplied temperature of 0 is kept: for every request with a     *)
(* temperature t in [0,2], every generation request dispatched carries t,  *)
(* and the default temperature is used only when the request has none.     *)
(* An empty-string model or systemPrompt is replaced by its default.       *)
(***************************************************************************)
SuppliesTemperature == pc # "idle" /\ request.temperature # <<>>

C24_ZeroTemperatureKept ==
  /\ SuppliesTemperature =>
       /\ frame.temperature = request.temperature[1]
       /\ \A i \in DOMAIN GenRequests :
            GenRequests[i].temperature = request.temperature[1]
  /\ (pc # "idle" /\ request.temperature = <<>>) =>
       /\ frame.temperature = svc.defaultTemperature
       /\ \A i \in DOMAIN GenRequests :
            GenRequests[i].temperature = svc.defaultTemperature
  /\ (pc # "idle" /\ depth = 0 /\ request.model = <<"">>) =>
       frame.model = svc.defaultModel
  /\ (pc # "idle" /\ request.systemPrompt = <<0>>) =>
       frame.systemPrompt = svc.defaultSystemPrompt

\* a request with temperature 0 and an empty-string model and system prompt
\* is dispatched with 0 and with the defaults of the other two
C24_Witness ==
  /\ pc = "awaitGen"
  /\ request.temperature = <<0>> /\ request.model = <<"">> /\ request.systemPrompt = <<0>>
  /\ svc.defaultTemperature # 0
  /\ Len(GenRequests) = 1
  /\ GenRequests[1].temperature = 0
  /\ GenRequests[1].model = svc.defaultModel
  /\ GenRequests[1].systemPrompt = svc.defaultSystemPrompt

(***************************************************************************)
(* C25.  The HTTP chat handler answers 200 with success:true and the       *)
(* response text exactly when the result has no error; when the result's   *)
(* error is set (the SAFETY and token-limit results included, which also   *)
(* carry a user-facing message) it answers 500 with only the error tag in  *)
(* details, and the message of the result is nowhere in the body.          *)
(***************************************************************************)
HandlerAnswers == pc = "done" /\ pc' = "idle"

C25_HandlerAnswers ==
  [][HandlerAnswers =>
       /\ (sent'.status = 200) <=> (result.error = <<>>)
       /\ result.error = <<>> =>
            /\ sent'.keys = {"success", "response", "timestamp"}
            /\ sent'.success
            /\ sent'.response = result.response
       /\ result.error # <<>> =>
            /\ sent'.status = 500
            /\ sent'.keys = {"error", "details"}
            /\ sent'.details = result.error
            /\ sent'.response = <<>>
            /\ \A i \in DOMAIN result.response :
                 /\ ~Contains(sent'.details, result.response[i])
                 /\ sent'.error # result.response[i]]_vars

\* a call blocked by the safety filters was answered with 500 and the tag
C25_Witness ==
  /\ pc = "idle"
  /\ sent.status = 500
  /\ sent.error = "Failed to generate response"
  /\ sent.details = <<SAFETY_ERROR>>
  /\ sent.response = <<>>

\* a call that gave a text was answered with 200 and that text
C25_Answers200 ==
  /\ pc = "idle"
  /\ sent.status = 200 /\ sent.success
  /\ sent.response = <<"hi">>

(***************************************************************************)
(* C22.  When every outbound network call completes, every call of         *)
(* generateResponse returns a result; the fallback recursion is never      *)
(* deeper than one level, and the retried call runs with the fallback      *)
(* model.                                                                  *)
(***************************************************************************)
InCall == pc \in {"awaitToken", "awaitGen"}
DepthCapped == depth <= 1 /\ (depth = 1 => frame.model = FALLBACK_MODEL)

C22_CallsReturn ==
  /\ []DepthCapped
  /\ InCall ~> Returns

\* a call returned from its fallback retry, after a 400 and a second reply
C22_Witness ==
  /\ Returns
  /\ depth = 1
  /\ Len(replies) = 2
  /\ replies[1] = GenHttp(FallbackStatus)
  /\ replies[2] = GenHttp(FallbackStatus)
  /\ Len(GenRequests) = 2
  /\ GenRequests[2].model = FALLBACK_MODEL

(***************************************************************************)
(* C21.  The cache slot is written only by a token exchange that was       *)
(* started on a cache miss; once it holds a token nothing clears or        *)
(* replaces it (not the time past the 3600 s of its lifetime, not a        *)
(* non-2xx generation response, not a fallback retry, not a further call), *)
(* and every generation request from then on carries that token, with no   *)
(* call of the token endpoint.                                             *)
(***************************************************************************)
Slot == svc.accessToken
SlotWrittenOnMiss == Slot' # Slot => (pc = "awaitToken" /\ Slot = 0)
SlotKept == Slot # 0 => (Slot' = Slot /\ pc' # "awaitToken")
SlotSent ==
  /\ Slot # 0 => (TokenRequests = <<>> \/ tokenReplies # <<>>)
  /\ \A i \in DOMAIN GenRequests : Slot # 0 /\ GenRequests[i].token = Slot

C21_SlotNeverReplaced ==
  /\ [][SlotWrittenOnMiss /\ SlotKept]_vars
  /\ []SlotSent

\* a later call on the instance, past the lifetime of the token, got a 400
\* and is in its fallback retry: both requests carry the token of the slot,
\* and the token endpoint was not called
C21_Witness ==
  /\ Expired
  /\ pc = "awaitGen" /\ depth = 1
  /\ TokenRequests = <<>>
  /\ replies = <<GenHttp(FallbackStatus)>>
  /\ Len(GenRequests) = 2
  /\ GenRequests[1].token = Slot /\ GenRequests[2].token = Slot

\* a call answered 401 by the generation endpoint left the token in the slot
C21_After401 ==
  /\ Returns
  /\ replies = <<GenHttp(401)>>
  /\ TokenRequests = <<>>
  /\ Slot # 0
  /\ Expired

(***************************************************************************)
(* C23.  Under any interleaving of calls, on one instance or on several,   *)
(* every generation request dispatched carries a non-empty token that a    *)
(* successful token exchange of the same instance returned; no instance    *)
(* uses or holds in its slot a token minted by another; two overlapping    *)
(* calls of one instance that both found the slot empty each make their    *)
(* own exchange, and this still holds.                                     *)
(***************************************************************************)
OwnToken(i, t) == t # 0 /\ t \in mints[i] /\ \A j \in Instances : t \in mints[j] => j = i

C23_OwnTokenDispatched ==
  /\ \A d \in dispatched : OwnToken(d[1], d[2])
  /\ \A i \in Instances : slots[i] = 0 \/ OwnToken(i, slots[i])
  /\ \A c \in CallIds :
       calls[c].pc = "awaitGen" =>
         /\ <<calls[c].inst, calls[c].token>> \in dispatched
         /\ OwnToken(calls[c].inst, calls[c].token)

\* two calls of instance 1 both found the slot empty, each made its own
\* exchange and each sent its own token; the slot holds the later one
C23_Witness ==
  /\ calls[1].inst = 1 /\ calls[2].inst = 1
  /\ calls[1].pc = "awaitGen" /\ calls[1].depth = 0
  /\ calls[2].pc = "awaitGen" /\ calls[2].depth = 0
  /\ calls[1].token # calls[2].token
  /\ Cardinality(mints[1]) = 2
  /\ dispatched = {<<1, calls[1].token>>, <<1, calls[2].token>>}
  /\ slots[1] \in {calls[1].token, calls[2].token}

\* overlapping calls of two instances each sent the token of their own
\* instance's exchange
C23_TwoInstances ==
  /\ calls[1].inst = 1 /\ calls[2].inst = 2
  /\ calls[1].pc = "awaitGen" /\ calls[2].pc = "awaitGen"
  /\ mints[1] = {calls[1].token} /\ mints[2] = {calls[2].token}
  /\ slots[1] = calls[1].token /\ slots[2] = calls[2].token
  /\ calls[1].token # calls[2].token

\* the reply of an overlapping exchange that carried no token emptied a slot
\* that held a token, and the call that had stored it made a second exchange
\* for its fallback retry
C23_SlotEmptiedAndRefilled ==
  /\ calls[1].inst = 1 /\ calls[2].inst = 1
  /\ calls[2].pc = "done"
  /\ calls[1].pc = "awaitGen" /\ calls[1].depth = 1
  /\ Cardinality(mints[1]) = 2
  /\ slots[1] = calls[1].token

====
